---- MODULE Spec2Model ----
(***************************************************************************)
(* KeyMaster: the entry store (keymaster/key_password.py, class            *)
(* PasswordDB over one sqlite3 connection) and the two front ends that     *)
(* keep an in-memory mapping next to it (keymaster/cli/key_cli.py and      *)
(* keymaster/ui/key_qt_main.py), the opening of the store against the     *)
(* file system (PasswordDB.get_data) and the derivation of a password      *)
(* (Password.calculate_password) from the real SHA-512 digests of the      *)
(* messages it hashes here.                                                *)
(*                                                                         *)
(* Strings that are compared or sorted (nicknames) are sequences of code   *)
(* points, so that Python's lexical order on str is computed, not assumed. *)
(* The table is the sequence of its rows in rowid order: sqlite gives a    *)
(* new row max(rowid)+1 and scans "select *" in rowid order.               *)
(***************************************************************************)
EXTENDS Integers, Sequences, FiniteSets, TLC

VARIABLES
    db,             \* the PasswordDB: [open, rows (the connection's view), durable (committed rows)]
    passwords_dic,  \* the front end's in-memory mapping nickname -> Password
    outcome,        \* how the last call ended: "ok" or the exception it raised
    commits,        \* the durable table after each commit of the last call, in order
    lastOp,         \* the last call: [op, nick (the entry it is about), pw (the entry it was given)]
    before,         \* the store as it was when the last direct store call began
    session,        \* who holds the store: "cli", "qt", "store" (direct calls) or "none"
    fs,             \* the file system: [path (db_name), dirs (existing directories), file (db_name exists)]
    callbacks,      \* the callbacks the last get_data invoked, in order
    derivation,     \* the last calculate_password: [proto, pw, result, error]
    printed,        \* what the last command of the command line wrote for the user, in order
    form,           \* the EditController: its widgets and flags
    console         \* what the user gave the last command: [argv (the nickname argument), answers
                    \* (at "Choose identity: "), lines (at the prompt it repeats), default, done, num]
                    \* and in the main window: argv the text of the nickname box, done whether
                    \* the dialog or the confirmation box was accepted

vars == <<db, passwords_dic, outcome, commits, lastOp, before, session, fs, callbacks, derivation,
          printed, form, console>>

-----------------------------------------------------------------------------
(* Bounds of the model *)

\* no entry is created in a table that already holds MaxRows rows
MaxRows == 3

\* nicknames "", "ab", "b"
Nicks == {<<>>, <<97, 98>>, <<98>>}

-----------------------------------------------------------------------------
(* Python values *)

\* a Python bool or int: bool is a subclass of int and True == 1
PyBool(b) == [t |-> "bool", v |-> IF b THEN 1 ELSE 0]
PyInt(n) == [t |-> "int", v |-> n]

\* Python's == on bool/int values compares the number, not the type
PyNumEq(x, y) == x.v = y.v

\* Python's < on str: lexical by code point, a proper prefix is smaller
RECURSIVE StrLess(_, _)
StrLess(a, b) ==
    IF b = <<>> THEN FALSE
    ELSE IF a = <<>> THEN TRUE
    ELSE IF Head(a) # Head(b) THEN Head(a) < Head(b)
    ELSE StrLess(Tail(a), Tail(b))

\* list.insert at the place sorted() gives x among the already sorted s (stable)
RECURSIVE Insort(_, _)
Insort(s, x) ==
    IF s = <<>> THEN <<x>>
    ELSE IF StrLess(x, Head(s)) THEN <<x>> \o s
    ELSE <<Head(s)>> \o Insort(Tail(s), x)

\* sorted(list of str)
RECURSIVE sorted(_)
sorted(s) ==
    IF s = <<>> THEN <<>>
    ELSE Insort(sorted(SubSeq(s, 1, Len(s) - 1)), s[Len(s)])

-----------------------------------------------------------------------------
(* class Password *)

Password(nickname, username, hostname, special_char, base, iteration, hint, start, finish) ==
    [nickname |-> nickname, username |-> username, hostname |-> hostname,
     special_char |-> special_char, base |-> base, iteration |-> iteration,
     hint |-> hint, start |-> start, finish |-> finish]

\* Password.__eq__: the two __dict__ are equal, field by field under ==
Password_eq(p, q) ==
    /\ p.nickname = q.nickname
    /\ p.username = q.username
    /\ p.hostname = q.hostname
    /\ PyNumEq(p.special_char, q.special_char)
    /\ p.base = q.base
    /\ p.iteration = q.iteration
    /\ p.hint = q.hint
    /\ p.start = q.start
    /\ p.finish = q.finish

-----------------------------------------------------------------------------
(* Password.calculate_password *)

\* sha512(message.encode("utf-8")).digest(): the 64 bytes of the digest, for the
\* messages calculate_password hashes here (ASCII, so one byte per character)
sha512(message) ==
    CASE message = "user@host1" ->
           <<237, 146, 54, 216, 120, 79, 41, 124, 143, 198, 45, 254, 2, 166, 183, 41, 201, 220, 62,
             164, 185, 125, 102, 183, 83, 2, 79, 118, 117, 197, 118, 116, 166, 66, 47, 55, 125, 21,
             78, 119, 153, 146, 64, 198, 56, 209, 167, 34, 231, 71, 144, 43, 181, 56, 43, 85, 140,
             175, 56, 63, 13, 71, 237, 159>>
      [] message = "user@host2" ->
           <<72, 135, 243, 234, 69, 64, 167, 220, 76, 201, 247, 53, 134, 190, 104, 154, 135, 72,
             42, 154, 225, 216, 78, 7, 252, 11, 236, 61, 151, 117, 146, 236, 124, 220, 85, 178, 71,
             199, 238, 111, 125, 171, 116, 18, 128, 11, 24, 13, 24, 202, 66, 233, 197, 206, 109,
             249, 85, 100, 0, 139, 32, 7, 230, 156>>
      [] message = "pwuser@host1" ->
           <<102, 233, 72, 180, 112, 244, 20, 159, 103, 182, 134, 49, 110, 254, 163, 116, 34, 100,
             188, 49, 185, 101, 118, 205, 196, 178, 151, 83, 171, 241, 175, 0, 10, 216, 108, 246,
             248, 136, 134, 190, 104, 134, 55, 168, 10, 132, 183, 45, 190, 222, 206, 32, 120, 82,
             176, 135, 233, 62, 59, 167, 26, 195, 223, 248>>
      [] message = "pwuser@host2" ->
           <<47, 161, 173, 190, 35, 206, 132, 147, 93, 139, 50, 209, 2, 248, 158, 163, 232, 38,
             151, 152, 38, 85, 171, 203, 106, 167, 94, 32, 55, 157, 205, 188, 247, 160, 255, 150,
             7, 237, 20, 113, 164, 194, 34, 208, 146, 218, 112, 232, 96, 188, 125, 155, 219, 11,
             11, 194, 234, 125, 201, 184, 44, 65, 38, 239>>
      [] message = "user@host1hint" ->
           <<86, 161, 63, 145, 193, 245, 149, 228, 111, 95, 61, 147, 181, 96, 156, 32, 52, 129, 98,
             236, 193, 170, 174, 45, 111, 234, 123, 107, 149, 68, 82, 23, 15, 179, 164, 247, 21,
             99, 88, 126, 152, 222, 135, 187, 120, 162, 117, 148, 234, 238, 44, 94, 156, 126, 76,
             79, 251, 195, 206, 121, 28, 87, 77, 36>>
      [] message = "user@host2hint" ->
           <<183, 121, 79, 56, 6, 89, 21, 95, 165, 76, 81, 167, 144, 144, 54, 187, 243, 60, 159,
             141, 143, 117, 34, 206, 159, 90, 73, 99, 60, 150, 103, 220, 238, 55, 218, 177, 154,
             217, 106, 31, 138, 186, 217, 235, 34, 117, 193, 240, 124, 23, 216, 169, 3, 98, 189,
             151, 93, 173, 145, 28, 160, 130, 132, 103>>
      [] message = "pwuser@host1hint" ->
           <<43, 153, 66, 220, 36, 66, 120, 8, 219, 141, 28, 207, 124, 129, 192, 29, 95, 172, 3,
             28, 220, 31, 134, 158, 228, 176, 110, 76, 11, 230, 132, 75, 232, 223, 49, 182, 231,
             57, 175, 232, 204, 211, 173, 230, 1, 122, 109, 192, 232, 204, 104, 230, 154, 131, 220,
             7, 19, 172, 159, 197, 36, 53, 19, 89>>
      [] message = "pwuser@host2hint" ->
           <<182, 99, 139, 235, 232, 119, 177, 106, 56, 121, 52, 172, 122, 29, 151, 254, 221, 14,
             251, 225, 72, 93, 251, 247, 132, 245, 114, 219, 136, 60, 149, 224, 173, 232, 102, 104,
             200, 179, 229, 253, 97, 131, 203, 15, 248, 34, 72, 137, 249, 247, 147, 103, 39, 132,
             33, 44, 100, 74, 38, 107, 138, 132, 209, 248>>

\* str.lower and bytes.lower on ASCII text: "A".."Z" become "a".."z"
lower(t) == [i \in 1..Len(t) |-> IF t[i] \in 65..90 THEN t[i] + 32 ELSE t[i]]

\* 2^k for the shifts of a 16-bit window, k in 0..16
Pow2(k) == <<1, 2, 4, 8, 16, 32, 64, 128, 256, 512, 1024, 2048, 4096, 8192, 16384, 32768,
             65536>>[k + 1]

\* the bits bits of the byte string data that start at bit position at, as a
\* number; past the end the bits are zero
BitsAt(data, at, bits) ==
    LET i == at \div 8
        hi == data[i + 1]
        lo == IF i + 2 <= Len(data) THEN data[i + 2] ELSE 0
    IN  ((hi * 256 + lo) \div Pow2(16 - (at % 8) - bits)) % Pow2(bits)

\* data in groups of bits bits, each a number, and -1 for every pad character
\* after them up to a multiple of quantum characters
Encoded(data, bits, quantum) ==
    LET digits == (8 * Len(data) + bits - 1) \div bits
        padded == ((digits + quantum - 1) \div quantum) * quantum
    IN  [k \in 1..padded |-> IF k <= digits THEN BitsAt(data, bits * (k - 1), bits) ELSE -1]

\* "ABCDEFGHIJKLMNOPQRSTUVWXYZ234567", "=" for a pad
b32alphabet(v) == IF v < 0 THEN 61 ELSE IF v < 26 THEN 65 + v ELSE 50 + (v - 26)

\* "A".."Z", "a".."z", "0".."9", "+", "/", "=" for a pad
b64alphabet(v) ==
    IF v < 0 THEN 61
    ELSE IF v < 26 THEN 65 + v
    ELSE IF v < 52 THEN 97 + (v - 26)
    ELSE IF v < 62 THEN 48 + (v - 52)
    ELSE IF v = 62 THEN 43 ELSE 47

\* base64.b32encode: 5 bits a character, 8 characters a group
b32encode(data) ==
    LET groups == Encoded(data, 5, 8)
    IN  [k \in 1..Len(groups) |-> b32alphabet(groups[k])]

\* mutant: the base-64 text without its "=" padding
b64encode_unpadded(data) ==
    LET groups == Encoded(data, 6, 1)
    IN  [k \in 1..Len(groups) |-> b64alphabet(groups[k])]

\* base64.b64encode: 6 bits a character, 4 characters a group
b64encode(data) ==
    LET groups == Encoded(data, 6, 4)
    IN  [k \in 1..Len(groups) |-> b64alphabet(groups[k])]

\* s[start:stop]: a negative index counts from the end, both are clipped to the length
PySlice(s, start, stop) ==
    LET clip(i) == IF i < 0 THEN (IF Len(s) + i < 0 THEN 0 ELSE Len(s) + i)
                   ELSE IF i > Len(s) THEN Len(s) ELSE i
    IN  IF clip(start) < clip(stop) THEN SubSeq(s, clip(start) + 1, clip(stop)) ELSE <<>>

\* mutant: str.replace without the count, every old changes
replace_all(s, old, new) == [i \in 1..Len(s) |-> IF s[i] = old THEN new ELSE s[i]]

\* str.replace(old, new, 1) for single characters: only the first old changes
replace(s, old, new) ==
    LET at == {i \in 1..Len(s) : s[i] = old}
        first == CHOOSE i \in at : \A j \in at : i <= j
    IN  IF at = {} THEN s ELSE [s EXCEPT ![first] = new]

\* mutant: the table with "s" left out
translator_acer(ch) ==
    CASE ch = 97 -> 64
      [] ch = 99 -> 40
      [] ch = 101 -> 42
      [] ch = 114 -> 94
      [] OTHER -> ch

\* Password.translator = str.maketrans("acers", "@(*^$")
translator(ch) ==
    CASE ch = 97 -> 64
      [] ch = 99 -> 40
      [] ch = 101 -> 42
      [] ch = 114 -> 94
      [] ch = 115 -> 36
      [] OTHER -> ch

\* password_str.translate(Password.translator)
translate(s) == [i \in 1..Len(s) |-> translator(s[i])]

\* the result of calculate_password: the string returned, or the exception raised
Derived(result, error) == [result |-> result, error |-> error]

\* mutant: the casing step runs before the lower-casing
Windowed_cased_first(self, password_str) ==
    LET window == PySlice(password_str, self.start, self.finish + 1)
        cased == lower(replace(replace(replace(window, 98, 66), 100, 68), 122, 90))
    IN  IF self.special_char.v # 0 THEN translate(cased) ELSE cased

\* lines 82-88: the window start..finish of the encoded text, lower-cased, the
\* first "b", "d" and "z" upper-cased, the special characters put in if asked for
Windowed(self, password_str) ==
    LET window == lower(PySlice(password_str, self.start, self.finish + 1))
        cased == replace(replace(replace(window, 98, 66), 100, 68), 122, 90)
    IN  IF self.special_char.v # 0 THEN translate(cased) ELSE cased

\* mutant: base 64 has no encoder bound
calculate_password_base32_only(self, user_proto_pw) ==
    LET proto_pw == user_proto_pw \o self.username \o "@" \o self.hostname
                        \o ToString(self.iteration)
    IN  IF self.base = 32 THEN Derived(Windowed(self, b32encode(sha512(proto_pw))), "ok")
        ELSE Derived(<<>>, "UnboundLocalError")

\* mutant: the hint is hashed with the rest
calculate_password_with_hint(self, user_proto_pw) ==
    LET proto_pw == user_proto_pw \o self.username \o "@" \o self.hostname
                        \o ToString(self.iteration) \o self.hint
    IN  IF self.base = 32 THEN Derived(Windowed(self, b32encode(sha512(proto_pw))), "ok")
        ELSE IF self.base = 64 THEN Derived(Windowed(self, b64encode(sha512(proto_pw))), "ok")
        ELSE Derived(<<>>, "UnboundLocalError")

\* Password.calculate_password: with a base that is neither 32 nor 64 encode_fn
\* is not bound when it is called
calculate_password(self, user_proto_pw) ==
    LET proto_pw == user_proto_pw \o self.username \o "@" \o self.hostname
                        \o ToString(self.iteration)
    IN  IF self.base = 32 THEN Derived(Windowed(self, b32encode(sha512(proto_pw))), "ok")
        ELSE IF self.base = 64 THEN Derived(Windowed(self, b64encode(sha512(proto_pw))), "ok")
        ELSE Derived(<<>>, "UnboundLocalError")

-----------------------------------------------------------------------------
(* sqlite3: parameter binding, rows, transactions *)

\* mutant: the username and hostname parameters bound in the wrong order
RowOf_swapped(pw_obj) ==
    <<pw_obj.nickname, pw_obj.hostname, pw_obj.username, pw_obj.special_char.v,
      pw_obj.base, pw_obj.iteration, pw_obj.hint, pw_obj.start, pw_obj.finish>>

\* the nine bound parameters of _SQL_INS_PASS; a bool is bound as INTEGER 0/1
RowOf(pw_obj) ==
    <<pw_obj.nickname, pw_obj.username, pw_obj.hostname, pw_obj.special_char.v,
      pw_obj.base, pw_obj.iteration, pw_obj.hint, pw_obj.start, pw_obj.finish>>

\* Password(*row): the special_char column comes back as an int
PasswordOfRow(row) ==
    Password(row[1], row[2], row[3], PyInt(row[4]), row[5], row[6], row[7], row[8], row[9])

\* a call in progress: the connection, the commits made so far, the exception raised
Call(d) == [open |-> d.open, rows |-> d.rows, durable |-> d.durable,
            commits |-> <<>>, error |-> "ok"]

DbOf(c) == [open |-> c.open, rows |-> c.rows, durable |-> c.durable]

\* any use of a closed connection raises sqlite3.ProgrammingError
Raise(c, e) == [c EXCEPT !.error = e]

\* self.conn.commit(): the pending writes become durable
conn_commit(c) ==
    IF c.error # "ok" THEN c
    ELSE IF ~c.open THEN Raise(c, "ProgrammingError")
    ELSE [c EXCEPT !.durable = c.rows, !.commits = Append(c.commits, c.rows)]

\* self.conn.close(): pending writes are rolled back; closing twice is allowed
conn_close(c) ==
    IF c.error # "ok" THEN c
    ELSE [c EXCEPT !.open = FALSE, !.rows = c.durable]

\* self.cur.execute of an insert: the row is appended inside the open transaction
sql_insert(c, row) ==
    IF c.error # "ok" THEN c
    ELSE IF ~c.open THEN Raise(c, "ProgrammingError")
    ELSE [c EXCEPT !.rows = Append(c.rows, row)]

\* mutant: "delete ... limit 1", only the first row with that nickname goes
sql_delete_first(c, nickname) ==
    IF c.error # "ok" THEN c
    ELSE IF ~c.open THEN Raise(c, "ProgrammingError")
    ELSE LET hits == {i \in 1..Len(c.rows) : c.rows[i][1] = nickname}
             first == CHOOSE i \in hits : \A j \in hits : i <= j
         IN  IF hits = {} THEN c
             ELSE [c EXCEPT !.rows = SubSeq(c.rows, 1, first - 1) \o
                                     SubSeq(c.rows, first + 1, Len(c.rows))]

\* self.cur.execute of _SQL_DEL_PASS: every row with that nickname goes, none is no error
sql_delete(c, nickname) ==
    IF c.error # "ok" THEN c
    ELSE IF ~c.open THEN Raise(c, "ProgrammingError")
    ELSE LET Keep(r) == r[1] # nickname
         IN  [c EXCEPT !.rows = SelectSeq(c.rows, Keep)]

-----------------------------------------------------------------------------
(* class PasswordDB *)

\* PasswordDB.__init__: connect, and with create_new_db drop and create the table
PasswordDB_init(d, create_new_db) ==
    LET c == [Call(d) EXCEPT !.open = TRUE, !.rows = d.durable]
    IN  IF create_new_db THEN conn_commit([c EXCEPT !.rows = <<>>]) ELSE c

\* the nickname column of every row, in the order "select" returns them
NickColumn(rows) == [i \in 1..Len(rows) |-> rows[i][1]]

\* mutant: the nicknames as fetched, without sorted()
get_list_of_nicks_unsorted(d) == NickColumn(d.rows)

get_list_of_nicks(d) == sorted(NickColumn(d.rows))

\* {row[0]: Password(*row) for row in fetchall()}: a later row replaces an earlier one
get_all_password_objects(d) ==
    LET last(n) == CHOOSE i \in 1..Len(d.rows) :
                      /\ d.rows[i][1] = n
                      /\ \A j \in (i+1)..Len(d.rows) : d.rows[j][1] # n
    IN  [n \in {d.rows[i][1] : i \in 1..Len(d.rows)} |-> PasswordOfRow(d.rows[last(n)])]

\* mutant: the select without its where clause, the first row of the table
get_password_for_nick_any(d, nickname) == PasswordOfRow(d.rows[1])

\* "select * from passwords where nickname = ?" and fetchall()[0]: the first row
\* stored under the nickname (asked only for a nickname that has a row)
get_password_for_nick(d, nickname) ==
    LET first == CHOOSE i \in 1..Len(d.rows) :
                    /\ d.rows[i][1] = nickname
                    /\ \A j \in 1..(i-1) : d.rows[j][1] # nickname
    IN  PasswordOfRow(d.rows[first])

_run_create(c, pw_obj) == sql_insert(c, RowOf(pw_obj))

\* mutant: "delete from passwords" without the where clause
_run_delete_all(c, nickname) ==
    IF c.error # "ok" THEN c
    ELSE IF ~c.open THEN Raise(c, "ProgrammingError")
    ELSE [c EXCEPT !.rows = <<>>]

_run_delete(c, nickname) == sql_delete(c, nickname)

create_new_password(c, pw_obj) == conn_commit(_run_create(c, pw_obj))

\* mutant: the old row is not deleted
update_old_password_no_delete(c, orig_nick, pw_obj) ==
    conn_commit(_run_create(c, pw_obj))

\* mutant: the delete is committed on its own before the insert
update_old_password_two_commits(c, orig_nick, pw_obj) ==
    conn_commit(_run_create(conn_commit(_run_delete(c, orig_nick)), pw_obj))

update_old_password(c, orig_nick, pw_obj) ==
    conn_commit(_run_create(_run_delete(c, orig_nick), pw_obj))

\* the argument of delete_password: a nickname or a Password object
ByNick(n) == [isPassword |-> FALSE, value |-> n]
ByObject(p) == [isPassword |-> TRUE, value |-> p]

\* mutant: the delete is left uncommitted
delete_password_no_commit(c, nickname_or_pw_obj) ==
    LET nickname == IF nickname_or_pw_obj.isPassword
                    THEN nickname_or_pw_obj.value.nickname
                    ELSE nickname_or_pw_obj.value
    IN  _run_delete(c, nickname)

delete_password(c, nickname_or_pw_obj) ==
    LET nickname == IF nickname_or_pw_obj.isPassword
                    THEN nickname_or_pw_obj.value.nickname
                    ELSE nickname_or_pw_obj.value
    IN  conn_commit(_run_delete(c, nickname))

close_db(c) == conn_close(conn_commit(c))

-----------------------------------------------------------------------------
(* Inputs *)

\* Python's None next to a str
None == [some |-> FALSE, text |-> <<>>]
Some(t) == [some |-> TRUE, text |-> t]

\* the entries a user enters: nickname and special characters vary
EntryWith(nickname, special) ==
    Password(nickname, "user", "host", PyBool(special),
             IF special THEN 64 ELSE 32, 1, "hint", 0, 15)

Entries == {EntryWith(n, s) : n \in Nicks, s \in BOOLEAN}

\* what the user types at a repeated prompt: up to two lines
NickLines == {<<>>} \cup {<<n>> : n \in Nicks} \cup {<<n, m>> : n, m \in Nicks}

Positions == 0..(Cardinality(Nicks) + 1)

\* a line typed at "Choose identity: ": a position "0".."4", nothing, or "x"
PosTexts == {<<48 + p>> : p \in Positions} \cup {<<>>, <<120>>}

\* an answer, or a "0" (asked again) and then an answer
PositionLines == {<<t>> : t \in PosTexts} \cup {<<(<<48>>), t>> : t \in PosTexts}

\* dict: pass_dic[k] = v and del pass_dic[k]
DictSet(dic, k, v) == [x \in DOMAIN dic \cup {k} |-> IF x = k THEN v ELSE dic[x]]
DictDel(dic, k) == [x \in DOMAIN dic \ {k} |-> dic[x]]

\* sorted(pass_dic.keys()): the keys are distinct, so the order is strict
RECURSIVE SortedKeys(_)
SortedKeys(S) ==
    IF S = {} THEN <<>>
    ELSE LET m == CHOOSE x \in S : \A y \in S \ {x} : StrLess(x, y)
         IN  <<m>> \o SortedKeys(S \ {m})

-----------------------------------------------------------------------------
(* keymaster/cli/key_cli.py *)

\* Password(): the constructor's defaults, standing where a call returned nothing
NoPassword == Password(<<>>, "", "", PyBool(FALSE), 32, 1, "", 0, 15)

\* the prompt loop has used up the lines typed so far and is still asking
StillAsking == [done |-> FALSE, nick |-> <<>>, pw |-> NoPassword, printed |-> <<>>]

\* the prompts are over: the nickname and the Password they gave
Got(nick, pw) == [done |-> TRUE, nick |-> nick, pw |-> pw, printed |-> <<>>]

\* a line written for the user: what it is ("entry", "not_found", "in_use",
\* "mismatch", "password", "hint"), its number in a list (0 outside one), the
\* nickname it is about, the password it shows
Out(what, number, nick, text) == [what |-> what, number |-> number, nick |-> nick, text |-> text]

\* r, having written out before what it wrote itself
Wrote(out, r) == [r EXCEPT !.printed = out \o @]

\* while nick in pass_dic: print(_MSG_NICK_IN_USE); nick = input('Nickname: ')
RECURSIVE NickLoop(_, _, _)
NickLoop(nick, pass_dic, lines) ==
    IF nick \notin DOMAIN pass_dic THEN Got(nick, NoPassword)
    ELSE IF lines = <<>> THEN StillAsking
    ELSE Wrote(<<Out("in_use", 0, nick, <<>>)>>, NickLoop(Head(lines), pass_dic, Tail(lines)))

_create_pass_get_nick(nick, pass_dic, lines) ==
    IF nick.some THEN NickLoop(nick.text, pass_dic, lines)
    ELSE IF lines = <<>> THEN StillAsking
    ELSE NickLoop(Head(lines), pass_dic, Tail(lines))

\* the number written by the decimal digits t
RECURSIVE DigitsValue(_)
DigitsValue(t) ==
    IF t = <<>> THEN 0
    ELSE 10 * DigitsValue(SubSeq(t, 1, Len(t) - 1)) + (t[Len(t)] - 48)

\* int(user_input) on a line of ASCII letters, digits and signs: an optional
\* "+" or "-" and at least one digit, anything else is a ValueError
int(t) ==
    LET signed == t # <<>> /\ t[1] \in {43, 45}
        digits == IF signed THEN Tail(t) ELSE t
    IN  IF digits = <<>> \/ (\E i \in 1..Len(digits) : digits[i] \notin 48..57)
        THEN [ok |-> FALSE, v |-> 0]
        ELSE [ok |-> TRUE,
              v |-> IF signed /\ t[1] = 45 THEN 0 - DigitsValue(digits) ELSE DigitsValue(digits)]

\* the default handed to _read_default_int: a number, or None
NoDefault == [some |-> FALSE, num |-> 0]
Default(n) == [some |-> TRUE, num |-> n]

\* mutant: a line that is not a number is taken as the default
RECURSIVE _read_default_int_gives_up(_, _)
_read_default_int_gives_up(lines, default) ==
    IF lines = <<>>
    THEN [done |-> FALSE, num |-> 0, rest |-> <<>>]
    ELSE IF Head(lines) = <<>> \/ ~int(Head(lines)).ok
    THEN IF default.some
         THEN [done |-> TRUE, num |-> default.num, rest |-> Tail(lines)]
         ELSE _read_default_int_gives_up(Tail(lines), default)
    ELSE [done |-> TRUE, num |-> int(Head(lines)).v, rest |-> Tail(lines)]

\* _read_default_int: while num is None a line is read; an empty line gives the
\* default (and, the default being None, another turn of the loop), a number
\* gives the number, anything else another turn; rest is what was typed after
\* the line that ended the loop
RECURSIVE _read_default_int(_, _)
_read_default_int(lines, default) ==
    IF lines = <<>>
    THEN [done |-> FALSE, num |-> 0, rest |-> <<>>]
    ELSE IF Head(lines) = <<>>
    THEN IF default.some
         THEN [done |-> TRUE, num |-> default.num, rest |-> Tail(lines)]
         ELSE _read_default_int(Tail(lines), default)
    ELSE IF int(Head(lines)).ok
    THEN [done |-> TRUE, num |-> int(Head(lines)).v, rest |-> Tail(lines)]
    ELSE _read_default_int(Tail(lines), default)

\* what the user types after the nickname: one line for each plain prompt, the
\* lines typed so far for each prompt that asks again
Typed(username, hostname, special_char, base, iteration, hint, start_char, end_char) ==
    [username |-> username, hostname |-> hostname, special_char |-> special_char,
     base |-> base, iteration |-> iteration, hint |-> hint,
     start_char |-> start_char, end_char |-> end_char]

\* the answers that give EntryWith(nickname, special): "y" and "64", or the defaults
TypedFor(special) ==
    Typed("user", "host", IF special THEN <<121>> ELSE <<>>,
          IF special THEN <<(<<54, 52>>)>> ELSE <<(<<>>)>>,
          <<(<<>>)>>, "hint", <<(<<>>)>>, <<(<<>>)>>)

_create_pass_get_new_pass(nick, pass_dic, lines, typed) ==
    LET g == _create_pass_get_nick(nick, pass_dic, lines)
        special_char == lower(typed.special_char \o <<110>>)[1] = 121
        base == _read_default_int(typed.base, Default(32))
        iteration == _read_default_int(typed.iteration, Default(1))
        start_char == _read_default_int(typed.start_char, Default(0))
        end_char == _read_default_int(typed.end_char, Default(15))
    IN  IF ~g.done THEN g
        ELSE IF ~(base.done /\ iteration.done /\ start_char.done /\ end_char.done)
             THEN StillAsking
        ELSE [g EXCEPT !.pw = Password(g.nick, typed.username, typed.hostname,
                                       PyBool(special_char), base.num, iteration.num,
                                       typed.hint, start_char.num, end_char.num)]

\* mutant: the answer is taken as an index from 0
RECURSIVE PosLoop_from_zero(_, _, _)
PosLoop_from_zero(keys, pass_dic, answers) ==
    LET pos == _read_default_int(answers, NoDefault)
    IN  IF ~pos.done THEN StillAsking
        ELSE IF pos.num \in 0..(Len(keys) - 1)
             THEN Got(keys[pos.num + 1], pass_dic[keys[pos.num + 1]])
             ELSE PosLoop_from_zero(keys, pass_dic, pos.rest)

\* while pos is None: pos = _read_default_int(_MSG_SELECT_NICK, None); a number
\* outside 1..len(keys) is asked for again
RECURSIVE PosLoop(_, _, _)
PosLoop(keys, pass_dic, answers) ==
    LET pos == _read_default_int(answers, NoDefault)
    IN  IF ~pos.done THEN StillAsking
        ELSE IF pos.num - 1 \in 0..(Len(keys) - 1)
             THEN Got(keys[pos.num], pass_dic[keys[pos.num]])
             ELSE PosLoop(keys, pass_dic, pos.rest)

\* list_pass(orig_nick, _, pass_dic): the entry under orig_nick or "not found";
\* without orig_nick the entries numbered from 1 in the order of
\* sorted(pass_dic.items()), which is the order of the keys, these being distinct
list_pass(orig_nick, pass_dic) ==
    LET keys == SortedKeys(DOMAIN pass_dic)
    IN  IF ~orig_nick.some
        THEN [i \in 1..Len(keys) |-> Out("entry", i, pass_dic[keys[i]].nickname, <<>>)]
        ELSE IF orig_nick.text \in DOMAIN pass_dic
        THEN <<Out("entry", 0, pass_dic[orig_nick.text].nickname, <<>>)>>
        ELSE <<Out("not_found", 0, orig_nick.text, <<>>)>>

\* mutant: for a nickname that is not found the first entry is taken unasked
_select_pass_first(nick, pass_dic, answers) ==
    IF nick.some /\ nick.text \in DOMAIN pass_dic
    THEN Got(nick.text, pass_dic[nick.text])
    ELSE IF nick.some /\ pass_dic # <<>>
    THEN Wrote(<<Out("not_found", 0, nick.text, <<>>)>> \o list_pass(None, pass_dic),
               PosLoop(SortedKeys(DOMAIN pass_dic), pass_dic, <<(<<49>>)>>))
    ELSE Wrote(list_pass(None, pass_dic),
               PosLoop(SortedKeys(DOMAIN pass_dic), pass_dic, answers))

_select_pass(nick, pass_dic, answers) ==
    IF nick.some /\ nick.text \in DOMAIN pass_dic
    THEN Got(nick.text, pass_dic[nick.text])
    ELSE Wrote((IF nick.some THEN <<Out("not_found", 0, nick.text, <<>>)>> ELSE <<>>)
                   \o list_pass(None, pass_dic),
               PosLoop(SortedKeys(DOMAIN pass_dic), pass_dic, answers))

\* a handler that has not returned: nothing the model can stop in
Pending(c, pass_dic) ==
    [done |-> FALSE, c |-> c, dic |-> pass_dic, nick |-> <<>>, pw |-> NoPassword, status |-> "ok",
     printed |-> <<>>]

Returned(c, pass_dic, nick, pw, status) ==
    [done |-> TRUE, c |-> c, dic |-> pass_dic, nick |-> nick, pw |-> pw, status |-> status,
     printed |-> <<>>]

\* the handler ended in the exception e, the store and the mapping as they are
Raised(c, pass_dic, e) == Returned(Raise(c, e), pass_dic, <<>>, NoPassword, "ok")

create_pass(nick, c, pass_dic, lines, typed) ==
    LET g == _create_pass_get_new_pass(nick, pass_dic, lines, typed)
    IN  IF ~g.done THEN Pending(c, pass_dic)
        ELSE Wrote(g.printed,
                   Returned(create_new_password(c, g.pw), DictSet(pass_dic, g.pw.nickname, g.pw),
                            g.pw.nickname, g.pw, "ok"))

\* mutant: the entry is deleted from the store but left in the mapping
delete_pass_keeps_key(nick, c, pass_dic, answers) ==
    LET sel == _select_pass(nick, pass_dic, answers)
    IN  IF ~sel.done THEN Pending(c, pass_dic)
        ELSE Wrote(sel.printed,
                   Returned(delete_password(c, ByObject(sel.pw)), pass_dic,
                            sel.pw.nickname, sel.pw, "ok"))

delete_pass(nick, c, pass_dic, answers) ==
    LET sel == _select_pass(nick, pass_dic, answers)
    IN  IF ~sel.done THEN Pending(c, pass_dic)
        ELSE Wrote(sel.printed,
                   Returned(delete_password(c, ByObject(sel.pw)), DictDel(pass_dic, sel.pw.nickname),
                            sel.pw.nickname, sel.pw, "ok"))

update_pass(nick, c, pass_dic, answers, lines, typed) ==
    LET old_pw == _select_pass(nick, pass_dic, answers)
        new_pass == _create_pass_get_new_pass(nick, pass_dic, lines, typed)
        del == delete_pass(Some(old_pw.pw.nickname), c, pass_dic, <<>>)
    IN  IF ~old_pw.done THEN Pending(c, pass_dic)
        ELSE IF ~new_pass.done THEN Pending(c, pass_dic)
        ELSE Wrote(old_pw.printed \o list_pass(Some(old_pw.pw.nickname), pass_dic)
                       \o new_pass.printed,
                   Returned(create_new_password(del.c, new_pass.pw),
                            DictSet(del.dic, new_pass.pw.nickname, new_pass.pw),
                            old_pw.pw.nickname, new_pass.pw, "ok"))

\* r, a call that has returned, with the derivation d it made
Deriving(r, d) ==
    [done |-> r.done, c |-> r.c, dic |-> r.dic, nick |-> r.nick, pw |-> r.pw,
     status |-> r.status, printed |-> r.printed, derivation |-> d]

\* the derivation of result (the string or the exception) from proto and pw
DerivationOf(proto, pw, d) == [proto |-> proto, pw |-> pw, result |-> d.result, error |-> d.error]

\* nothing was derived by this call
Underived == [proto |-> "", pw |-> NoPassword, result |-> <<>>, error |-> "none"]

\* proto_pw = _get_proto_password() until it is not None: two lines from getpass
\* each time, None and _MSG_PROTO_PW_MISMATCH when they differ
RECURSIVE ProtoLoop(_)
ProtoLoop(typed) ==
    IF Len(typed) < 2 THEN [done |-> FALSE, proto |-> "", printed |-> <<>>]
    ELSE IF typed[1] = typed[2] THEN [done |-> TRUE, proto |-> typed[1], printed |-> <<>>]
    ELSE Wrote(<<Out("mismatch", 0, <<>>, <<>>)>>, ProtoLoop(SubSeq(typed, 3, Len(typed))))

\* mutant: the first capture is used, the second is not compared with it
get_pass_unconfirmed(nick, c, pass_dic, answers, typed) ==
    LET pass_obj == _select_pass(nick, pass_dic, answers)
        d == calculate_password(pass_obj.pw, typed[1])
    IN  IF ~pass_obj.done \/ Len(typed) < 2 THEN Deriving(Pending(c, pass_dic), Underived)
        ELSE Deriving(Wrote(pass_obj.printed \o <<Out("password", 0, pass_obj.nick, d.result)>>,
                            Returned(c, pass_dic, pass_obj.nick, pass_obj.pw, "ok")),
                      DerivationOf(typed[1], pass_obj.pw, d))

\* mutant: the password shown is also kept, as the hint of the entry
get_pass_keeps_password(nick, c, pass_dic, answers, typed) ==
    LET pass_obj == _select_pass(nick, pass_dic, answers)
        proto_pw == ProtoLoop(typed)
        d == calculate_password(pass_obj.pw, proto_pw.proto)
        kept == [pass_obj.pw EXCEPT !.hint = "pw"]
    IN  IF ~pass_obj.done THEN Deriving(Pending(c, pass_dic), Underived)
        ELSE IF ~proto_pw.done THEN Deriving(Pending(c, pass_dic), Underived)
        ELSE Deriving(Wrote(pass_obj.printed \o proto_pw.printed
                                \o <<Out("password", 0, pass_obj.nick, d.result)>>,
                            Returned(update_old_password(c, pass_obj.nick, kept),
                                     DictSet(pass_dic, pass_obj.nick, kept),
                                     pass_obj.nick, pass_obj.pw, "ok")),
                      DerivationOf(proto_pw.proto, pass_obj.pw, d))

\* get_pass: select the entry, get a confirmed proto-password, print the password
get_pass(nick, c, pass_dic, answers, typed) ==
    LET pass_obj == _select_pass(nick, pass_dic, answers)
        proto_pw == ProtoLoop(typed)
        d == calculate_password(pass_obj.pw, proto_pw.proto)
    IN  IF ~pass_obj.done THEN Deriving(Pending(c, pass_dic), Underived)
        ELSE IF ~proto_pw.done THEN Deriving(Pending(c, pass_dic), Underived)
        ELSE IF d.error # "ok"
        THEN Deriving(Wrote(pass_obj.printed \o proto_pw.printed, Raised(c, pass_dic, d.error)),
                      DerivationOf(proto_pw.proto, pass_obj.pw, d))
        ELSE Deriving(Wrote(pass_obj.printed \o proto_pw.printed
                                \o <<Out("password", 0, pass_obj.nick, d.result)>>,
                            Returned(c, pass_dic, pass_obj.nick, pass_obj.pw, "ok")),
                      DerivationOf(proto_pw.proto, pass_obj.pw, d))

\* hint_pass: select the entry and print its hint
hint_pass(nick, c, pass_dic, answers) ==
    LET pass_obj == _select_pass(nick, pass_dic, answers)
    IN  IF ~pass_obj.done THEN Pending(c, pass_dic)
        ELSE Wrote(pass_obj.printed \o <<Out("hint", 0, pass_obj.nick, <<>>)>>,
                   Returned(c, pass_dic, pass_obj.nick, pass_obj.pw, "ok"))

-----------------------------------------------------------------------------
(* keymaster/ui/key_qt_main.py *)

\* "--Please select one of the following--"
_NICKNAMES_LIST_HEADER ==
    <<45, 45, 80, 108, 101, 97, 115, 101, 32, 115, 101, 108, 101, 99, 116,
     32, 111, 110, 101, 32, 111, 102, 32, 116, 104, 101, 32, 102, 111, 108,
     108, 111, 119, 105, 110, 103, 45, 45>>

\* the items of combobox_password_nicknames after _populate_pw_nicknames_list
_populate_pw_nicknames_list(pass_dic) ==
    LET nicknames == SortedKeys(DOMAIN pass_dic)
    IN  IF Len(nicknames) > 1 THEN <<_NICKNAMES_LIST_HEADER>> \o nicknames ELSE nicknames

\* the texts currentText() can give: an item, or "" while the box is empty
CurrentTexts(pass_dic) ==
    LET items == _populate_pw_nicknames_list(pass_dic)
    IN  IF items = <<>> THEN {<<>>} ELSE {items[i] : i \in 1..Len(items)}

\* get, hint, update and delete are enabled only while there are nicknames
WidgetsEnabled(pass_dic) == DOMAIN pass_dic # {}

_get_selected(selected_text) ==
    IF selected_text # _NICKNAMES_LIST_HEADER THEN Some(selected_text) ELSE None

\* "if not selection": None and "" are both falsy
NotSelection(selection) == ~selection.some \/ selection.text = <<>>

\* what one run of the edit dialog gives: cancelled, or accepted with the form's Password
Dialogs == {[accepted |-> FALSE, pw |-> NoPassword]} \cup
           {[accepted |-> TRUE, pw |-> e] : e \in Entries}

\* one run of the dialog, or a form without special characters and then another run
DialogLines == {<<x>> : x \in Dialogs} \cup
               {<<[accepted |-> TRUE, pw |-> EntryWith(n, FALSE)], y>> : n \in Nicks, y \in Dialogs}

\* while bad_data_entered: show the form again
RECURSIVE EditLoop(_, _, _)
EditLoop(is_update, pass_dic, dialogs) ==
    IF dialogs = <<>> THEN [done |-> FALSE, some |-> FALSE, pw |-> NoPassword]
    ELSE LET edit_return == Head(dialogs)
             nickname == edit_return.pw.nickname
             nickname_is_blank == nickname = <<>>
             nickname_already_exists == nickname \in DOMAIN pass_dic
             bad_data_entered == nickname_is_blank \/ (nickname_already_exists /\ ~is_update)
         IN  IF ~edit_return.accepted THEN [done |-> TRUE, some |-> FALSE, pw |-> NoPassword]
             ELSE IF bad_data_entered THEN EditLoop(is_update, pass_dic, Tail(dialogs))
             ELSE [done |-> TRUE, some |-> TRUE, pw |-> edit_return.pw]

\* returns (orig_nickname, password), or (None, None) with the reason
get_password_from_user(is_update, selected_text, pass_dic, dialogs) ==
    LET orig_nickname == _get_selected(selected_text)
        has_orig == orig_nickname.some /\ orig_nickname.text \in DOMAIN pass_dic
        e == EditLoop(is_update, pass_dic, dialogs)
    IN  IF is_update /\ ~has_orig
        THEN [done |-> TRUE, some |-> FALSE, orig |-> orig_nickname, pw |-> NoPassword,
              status |-> "selection_error"]
        ELSE [done |-> e.done, some |-> e.some, orig |-> orig_nickname, pw |-> e.pw,
              status |-> IF e.some THEN "ok" ELSE "cancelled"]

create_or_update_password(is_update, selected_text, c, pass_dic, dialogs) ==
    LET g == get_password_from_user(is_update, selected_text, pass_dic, dialogs)
    IN  IF ~g.done THEN Pending(c, pass_dic)
        ELSE IF ~g.some THEN Returned(c, pass_dic, g.orig.text, NoPassword, g.status)
        ELSE IF is_update
        THEN Returned(update_old_password(c, g.orig.text, g.pw),
                      DictSet(DictDel(pass_dic, g.orig.text), g.pw.nickname, g.pw),
                      g.orig.text, g.pw, "ok")
        ELSE Returned(create_new_password(c, g.pw),
                      DictSet(pass_dic, g.pw.nickname, g.pw),
                      g.pw.nickname, g.pw, "ok")

\* mutant: the answer of the confirmation box is not looked at
qt_delete_password_unconfirmed(selected_text, confirmed, c, pass_dic) ==
    LET selection == _get_selected(selected_text)
    IN  IF NotSelection(selection) THEN Returned(c, pass_dic, selection.text, NoPassword, "selection_error")
        ELSE Returned(delete_password(c, ByNick(selection.text)), DictDel(pass_dic, selection.text),
                      selection.text, NoPassword, "ok")

qt_delete_password(selected_text, confirmed, c, pass_dic) ==
    LET selection == _get_selected(selected_text)
    IN  IF NotSelection(selection) THEN Returned(c, pass_dic, selection.text, NoPassword, "selection_error")
        ELSE IF ~confirmed THEN Returned(c, pass_dic, selection.text, NoPassword, "cancelled")
        ELSE Returned(delete_password(c, ByNick(selection.text)), DictDel(pass_dic, selection.text),
                      selection.text, NoPassword, "ok")

\* MainController.get_password: the password of the selection for the text of
\* the proto-password line, shown and copied to the clipboard
get_password(selected_text, proto_pw_1, c, pass_dic) ==
    LET selection == _get_selected(selected_text)
        d == calculate_password(pass_dic[selection.text], proto_pw_1)
    IN  IF NotSelection(selection)
        THEN Deriving(Returned(c, pass_dic, selection.text, NoPassword, "selection_error"), Underived)
        ELSE IF d.error # "ok"
        THEN Deriving(Raised(c, pass_dic, d.error),
                      DerivationOf(proto_pw_1, pass_dic[selection.text], d))
        ELSE Deriving(Wrote(<<Out("password", 0, selection.text, d.result)>>,
                            Returned(c, pass_dic, selection.text, pass_dic[selection.text], "ok")),
                      DerivationOf(proto_pw_1, pass_dic[selection.text], d))

\* MainController.get_hint: the hint of the selection is displayed
get_hint(selected_text, c, pass_dic) ==
    LET selection == _get_selected(selected_text)
    IN  IF NotSelection(selection)
        THEN Returned(c, pass_dic, selection.text, NoPassword, "selection_error")
        ELSE Wrote(<<Out("hint", 0, selection.text, <<>>)>>,
                   Returned(c, pass_dic, selection.text, pass_dic[selection.text], "ok"))

\* MainController.reject: close up shop
reject(c) == close_db(c)

-----------------------------------------------------------------------------
(* The state machine *)

\* no database file yet
NoFile == [open |-> FALSE, rows |-> <<>>, durable |-> <<>>]

\* EditController.__init__ and setupUi: the widgets as the form's tests find them
\* (an empty combo box until start() fills it, iteration 1, window 0..15) and
\* the flags false;
\* asked and result are what the last press of OK or Cancel did, prepared and
\* touched record how the form was last prepared and whether the user has
\* changed a widget since
NoForm ==
    [started |-> FALSE, nickname |-> <<>>, username |-> "", hostname |-> "", hint |-> "",
     iteration |-> 1, start |-> 0, finish |-> 15, base |-> "", special_char |-> FALSE,
     orig_nick |-> <<>>, dirty_flag |-> FALSE, update_flag |-> FALSE,
     asked |-> FALSE, result |-> "none", prepared |-> "none", touched |-> FALSE]

\* EditController.set_dirty
set_dirty(self) == [self EXCEPT !.dirty_flag = TRUE]

\* lineedit.setText / clear, spinbox.setValue: textChanged and valueChanged are
\* emitted, and set_dirty runs, only when the value changes
setValue(self, widget, value) ==
    IF self[widget] = value THEN self ELSE set_dirty([self EXCEPT ![widget] = value])

\* combobox_base.findText: the item with that text, "" for index -1
findText(text) == IF text \in {"32", "64"} THEN text ELSE ""

\* mutant: a new base never checks the box
base_changed_dirty_only(self, new_state) == set_dirty(self)

RECURSIVE setChecked(_, _), special_char_changed(_, _), setCurrentIndex(_, _), base_changed(_, _)

\* checkbox_special_char.setChecked: stateChanged is emitted only on a change
setChecked(self, checked) ==
    IF self.special_char = checked THEN self
    ELSE special_char_changed([self EXCEPT !.special_char = checked], checked)

\* EditController.special_char_changed
special_char_changed(self, new_state) ==
    LET dirty == set_dirty(self)
    IN  IF ~new_state THEN setCurrentIndex(dirty, findText("32")) ELSE dirty

\* combobox_base.setCurrentIndex: currentIndexChanged is emitted only on a change
setCurrentIndex(self, index) ==
    IF self.base = index THEN self
    ELSE base_changed([self EXCEPT !.base = index], index)

\* EditController.base_changed
base_changed(self, new_state) ==
    LET dirty == set_dirty(self)
    IN  IF new_state = findText("64") THEN setChecked(dirty, TRUE) ELSE dirty

\* EditController.start: addItems selects "32" before any signal is connected
EditController_start(self) == [self EXCEPT !.started = TRUE, !.base = "32"]

\* EditController.clear
clear(self) ==
    LET a == [self EXCEPT !.orig_nick = <<>>]
        b == setValue(a, "nickname", <<>>)
        c == setValue(b, "username", "")
        d == setValue(c, "hostname", "")
        e == setValue(d, "hint", "")
        f == setValue(e, "iteration", 1)
        g == setValue(f, "start", 0)
        h == setValue(g, "finish", 15)
        i == setCurrentIndex(h, "32")
    IN  setChecked(i, FALSE)

\* EditController.populate_form_from_password
populate_form_from_password(self, pw_obj) ==
    LET a == [self EXCEPT !.orig_nick = pw_obj.nickname]
        b == setValue(a, "nickname", pw_obj.nickname)
        c == setValue(b, "username", pw_obj.username)
        d == setValue(c, "hostname", pw_obj.hostname)
        e == setChecked(d, pw_obj.special_char.v # 0)
        f == setCurrentIndex(e, findText(ToString(pw_obj.base)))
        g == setValue(f, "iteration", pw_obj.iteration)
        h == setValue(g, "hint", pw_obj.hint)
        i == setValue(h, "start", pw_obj.start)
        j == setValue(i, "finish", pw_obj.finish)
    IN  [j EXCEPT !.update_flag = TRUE]

\* EditController.confirm_accept: the message box is shown only for a dirty update
confirm_accept(self, response) ==
    IF self.update_flag /\ self.dirty_flag
    THEN [self EXCEPT !.asked = TRUE, !.result = IF response THEN "accepted" ELSE "rejected"]
    ELSE [self EXCEPT !.asked = FALSE, !.result = "accepted"]

\* nothing given yet
NoConsole ==
    [argv |-> None, answers |-> <<>>, lines |-> <<>>, default |-> NoDefault, done |-> FALSE,
     num |-> 0]

\* nothing derived yet
NoDerivation == [proto |-> "", pw |-> NoPassword, result |-> <<>>, error |-> "none"]

\* PasswordDB.get_data on a path without a file, creation accepted
get_data_new(d) ==
    LET c == PasswordDB_init(d, TRUE)
    IN  Returned(c, get_all_password_objects(DbOf(c)), <<>>, NoPassword, "ok")

\* mutant: an existing file is opened as a new store is
get_data_recreates(d) ==
    LET c == PasswordDB_init([d EXCEPT !.open = FALSE, !.rows = d.durable], TRUE)
    IN  Returned(c, get_all_password_objects(DbOf(c)), <<>>, NoPassword, "ok")

\* PasswordDB.get_data on a path whose file exists; a connection left open by a
\* process that ended is gone, and with it whatever it had not committed
get_data(d) ==
    LET c == PasswordDB_init([d EXCEPT !.open = FALSE, !.rows = d.durable], FALSE)
    IN  Returned(c, get_all_password_objects(DbOf(c)), <<>>, NoPassword, "ok")

(* os.path and os.makedirs; a path is the sequence of its code points, "/" is 47 *)

\* db_name as the caller gives it: "p.db", "/p.db", "a/p.db", "a/b/p.db"
Paths == {<<112, 46, 100, 98>>,
          <<47, 112, 46, 100, 98>>,
          <<97, 47, 112, 46, 100, 98>>,
          <<97, 47, 98, 47, 112, 46, 100, 98>>}

\* str.rfind: the last place of ch in p, counted from 1, 0 when absent
rfind(p, ch) ==
    LET at == {i \in 1..Len(p) : p[i] = ch}
    IN  IF at = {} THEN 0 ELSE CHOOSE i \in at : \A j \in at : j <= i

\* str.rstrip("/")
RECURSIVE rstrip(_)
rstrip(p) ==
    IF p # <<>> /\ p[Len(p)] = 47 THEN rstrip(SubSeq(p, 1, Len(p) - 1)) ELSE p

\* posixpath.dirname: everything up to the last "/", without trailing slashes
\* unless it is nothing but slashes
os_path_dirname(p) ==
    LET head == SubSeq(p, 1, rfind(p, 47))
    IN  IF head # <<>> /\ (\E i \in 1..Len(head) : head[i] # 47) THEN rstrip(head) ELSE head

\* os.path.exists: "" never exists, "/" always does
os_path_exists(f, p) ==
    \/ p = <<47>>
    \/ p # <<>> /\ p \in f.dirs
    \/ p = f.path /\ f.file

\* root and every directory above it
Ancestors(root) ==
    {rstrip(SubSeq(root, 1, i)) : i \in {j \in 1..Len(root) : j = Len(root) \/ root[j + 1] = 47}}
        \ {<<>>}

\* os.makedirs(root): creates root and its missing ancestors; mkdir("") fails
os_makedirs(f, root) ==
    IF root = <<>> THEN [fs |-> f, error |-> "FileNotFoundError"]
    ELSE IF os_path_exists(f, root) THEN [fs |-> f, error |-> "FileExistsError"]
    ELSE [fs |-> [f EXCEPT !.dirs = f.dirs \cup Ancestors(root)], error |-> "ok"]

\* what get_data leaves behind: the file system, the (pass_db, passwords_dic) it
\* returned or the exception it raised, and the callbacks it invoked
GotData(f, r, cbs) == [fs |-> f, r |-> r, callbacks |-> cbs]

\* ask_to_create_new_func was called and returned answer
Asked(answer) == [name |-> "ask_to_create_new", returned |-> answer]

\* get_data returned (None, None)
NoneNone(d) == Returned(Call(d), <<>>, <<>>, NoPassword, "none_none")

\* mutant: the connection is made, and with it the file, before the question is asked
PasswordDB_get_data_connects_first(f, d, answer) ==
    IF os_path_exists(f, f.path) THEN GotData(f, get_data(d), <<>>)
    ELSE IF answer
         THEN GotData([f EXCEPT !.file = TRUE], get_data_new(d), <<Asked(answer)>>)
         ELSE GotData([f EXCEPT !.file = TRUE], NoneNone(d), <<Asked(answer)>>)

\* PasswordDB.get_data(ask_to_create_new_func, error_getting_db_func, db_name):
\* answer is what ask_to_create_new_func returns; PasswordDB(...) is an object,
\* never None, so error_getting_db_func has no caller
PasswordDB_get_data(f, d, answer) ==
    LET root == os_path_dirname(f.path)
        made == IF ~os_path_exists(f, root) THEN os_makedirs(f, root)
                ELSE [fs |-> f, error |-> "ok"]
    IN  IF os_path_exists(f, f.path) THEN GotData(f, get_data(d), <<>>)
        ELSE IF ~answer THEN GotData(f, NoneNone(d), <<Asked(answer)>>)
        ELSE IF made.error # "ok"
             THEN GotData(f, Returned(Raise(Call(d), made.error), <<>>, <<>>, NoPassword, "ok"),
                          <<Asked(answer)>>)
        ELSE GotData([made.fs EXCEPT !.file = TRUE], get_data_new(d), <<Asked(answer)>>)

\* DEFAULT_DB_PATH, two directories below the working directory, its database
\* already created
DefaultFs == [path |-> <<97, 47, 98, 47, 112, 46, 100, 98>>,
              dirs |-> {<<97>>, <<97, 47, 98>>}, file |-> TRUE]

\* the call r has returned: its effects on the store and the mapping become the state
Applied(r, op, who, old) ==
    /\ r.done
    /\ db' = DbOf(r.c)
    /\ passwords_dic' = r.dic
    /\ outcome' = IF r.c.error # "ok" THEN r.c.error ELSE r.status
    /\ commits' = r.c.commits
    /\ lastOp' = [op |-> op, nick |-> r.nick, pw |-> r.pw]
    /\ before' = old
    /\ session' = who
    /\ UNCHANGED <<fs, callbacks, form>>

\* a call of a handler that derives nothing, its output not looked at
Finish(r, op, who, old) ==
    /\ Applied(r, op, who, old)
    /\ UNCHANGED <<derivation, printed, console>>

\* a command of the command line that derives nothing, with what it wrote
Shown(r, op, who, old) ==
    /\ Applied(r, op, who, old)
    /\ printed' = r.printed
    /\ UNCHANGED <<derivation, console>>

StartWith(who) ==
    LET r == get_data_new(NoFile)
    IN  /\ db = DbOf(r.c)
        /\ passwords_dic = r.dic
        /\ outcome = "ok"
        /\ commits = r.c.commits
        /\ lastOp = [op |-> "get_data", nick |-> <<>>, pw |-> NoPassword]
        /\ before = NoFile
        /\ session = who
        /\ fs = DefaultFs
        /\ callbacks = <<Asked(TRUE)>>
        /\ derivation = NoDerivation
        /\ printed = <<>>
        /\ form = NoForm
        /\ console = NoConsole

(* the front ends *)

\* nothing is typed at a prompt that never comes: with a nickname of the mapping
\* on the command line the position is not asked for
Unasked(nick, pass_dic, answers) ==
    (nick.some /\ nick.text \in DOMAIN pass_dic) => answers = <<(<<>>)>>

\* and with a new nickname on the command line the nickname is not asked for
UnaskedNick(nick, pass_dic, lines) ==
    (nick.some /\ nick.text \notin DOMAIN pass_dic) => lines = <<>>

Init == \E who \in {"cli", "qt"} : StartWith(who)

\* a new process opens the existing file; the graphical one must have been dismissed
GetData ==
    /\ session # "qt"
    /\ \E who \in {"cli", "qt"} : Finish(get_data(db), "get_data", who, NoFile)

CliCreatePass ==
    /\ session = "cli"
    /\ Len(db.rows) < MaxRows
    /\ \E nick \in {None} \cup {Some(n) : n \in Nicks}, lines \in NickLines, special \in BOOLEAN :
          /\ UnaskedNick(nick, passwords_dic, lines)
          /\ Finish(create_pass(nick, Call(db), passwords_dic, lines, TypedFor(special)),
                 "create_pass", "cli", NoFile)

CliUpdatePass ==
    /\ session = "cli"
    /\ \E nick \in {None} \cup {Some(n) : n \in Nicks}, answers \in PositionLines :
          /\ Unasked(nick, passwords_dic, answers)
          /\ _select_pass(nick, passwords_dic, answers).done
          /\ \E lines \in NickLines, special \in BOOLEAN :
                Finish(update_pass(nick, Call(db), passwords_dic, answers, lines, TypedFor(special)),
                       "update_pass", "cli", NoFile)

CliDeletePass ==
    /\ session = "cli"
    /\ \E nick \in {None} \cup {Some(n) : n \in Nicks}, answers \in PositionLines :
          /\ Unasked(nick, passwords_dic, answers)
          /\ Finish(delete_pass(nick, Call(db), passwords_dic, answers),
                    "delete_pass", "cli", NoFile)

QtNew ==
    /\ session = "qt"
    /\ Len(db.rows) < MaxRows
    /\ \E selected_text \in CurrentTexts(passwords_dic), dialogs \in DialogLines :
          Finish(create_or_update_password(FALSE, selected_text, Call(db), passwords_dic, dialogs),
                 "qt_new", "qt", NoFile)

QtUpdate ==
    /\ session = "qt"
    /\ WidgetsEnabled(passwords_dic)
    /\ \E selected_text \in CurrentTexts(passwords_dic), dialogs \in DialogLines :
          Finish(create_or_update_password(TRUE, selected_text, Call(db), passwords_dic, dialogs),
                 "qt_update", "qt", NoFile)

QtDelete ==
    /\ session = "qt"
    /\ WidgetsEnabled(passwords_dic)
    /\ \E selected_text \in CurrentTexts(passwords_dic), confirmed \in BOOLEAN :
          Finish(qt_delete_password(selected_text, confirmed, Call(db), passwords_dic),
                 "qt_delete", "qt", NoFile)

QtReject ==
    /\ session = "qt"
    /\ Finish(Returned(reject(Call(db)), passwords_dic, <<>>, NoPassword, "ok"), "reject", "none", NoFile)

Next ==
    \/ GetData
    \/ CliCreatePass
    \/ CliUpdatePass
    \/ CliDeletePass
    \/ QtNew
    \/ QtUpdate
    \/ QtDelete
    \/ QtReject

Spec == Init /\ [][Next]_vars

(* the store called directly, as its tests do *)

StoreInit == StartWith("store")

CallCreate ==
    /\ session = "store"
    /\ db.open
    /\ Len(db.rows) < MaxRows
    /\ \E e \in Entries :
          Finish(Returned(create_new_password(Call(db), e), passwords_dic, e.nickname, e, "ok"),
                 "create_new_password", "store", db)

CallUpdate ==
    /\ session = "store"
    /\ db.open
    /\ \E orig_nick \in Nicks, e \in Entries :
          /\ Len(_run_delete(Call(db), orig_nick).rows) < MaxRows
          /\ Finish(Returned(update_old_password(Call(db), orig_nick, e), passwords_dic,
                             orig_nick, e, "ok"),
                    "update_old_password", "store", db)

CallDelete ==
    /\ session = "store"
    /\ db.open
    /\ \/ \E n \in Nicks :
             Finish(Returned(delete_password(Call(db), ByNick(n)), passwords_dic,
                             n, NoPassword, "ok"),
                    "delete_password", "store", db)
       \/ \E e \in Entries :
             Finish(Returned(delete_password(Call(db), ByObject(e)), passwords_dic,
                             e.nickname, e, "ok"),
                    "delete_password", "store", db)

\* close_db, also on a store that is closed already
CallClose ==
    /\ session = "store"
    /\ Finish(Returned(close_db(Call(db)), passwords_dic, <<>>, NoPassword, "ok"),
              "close_db", "store", db)

\* PasswordDB(db_name, create_new_db=False) on the file of a closed store
CallOpen ==
    /\ session = "store"
    /\ ~db.open
    /\ Finish(Returned(PasswordDB_init(db, FALSE), passwords_dic, <<>>, NoPassword, "ok"),
              "PasswordDB", "store", db)

StoreNext ==
    \/ CallCreate
    \/ CallUpdate
    \/ CallDelete
    \/ CallClose
    \/ CallOpen

StoreSpec == StoreInit /\ [][StoreNext]_vars

(* keymaster on the command line: every command is a process of its own, main()
   loads the data and runs one handler on what the user types *)

\* the lines typed at "Base ([32]/64): ": the default, "64", "16", "x" and then
\* "64", "x" alone (the prompt is still open)
BaseLines == {<<(<<>>)>>, <<(<<54, 52>>)>>, <<(<<49, 54>>)>>,
              <<(<<120>>), (<<54, 52>>)>>, <<(<<120>>)>>}

\* the answers to the prompts after the nickname: no special characters with
\* each of BaseLines, or "Y" and base "64"; the defaults for the other numbers
TypedLines ==
    {Typed("user", "host", <<>>, base, <<(<<>>)>>, "hint", <<(<<>>)>>, <<(<<>>)>>) :
        base \in BaseLines}
    \cup {Typed("user", "host", <<89>>, <<(<<54, 52>>)>>, <<(<<>>)>>, "hint", <<(<<>>)>>, <<(<<>>)>>)}

\* the nickname typed at the prompt, if any
MainNickLines == {<<>>} \cup {<<n>> : n \in Nicks}

\* the nickname argument of the command line
Argv == {None} \cup {Some(n) : n \in Nicks}

MainInit == StartWith("main")

\* keymaster create [nickname]
MainCreate ==
    /\ session = "main"
    /\ Len(db.durable) < MaxRows
    /\ LET g == get_data(db)
       IN  \E nick \in Argv, lines \in MainNickLines, typed \in TypedLines :
              Shown(create_pass(nick, g.c, g.dic, lines, typed), "create_pass", "main", NoFile)

\* keymaster update [nickname]
MainUpdate ==
    /\ session = "main"
    /\ LET g == get_data(db)
       IN  \E nick \in Argv, p \in PosTexts :
              /\ Unasked(nick, g.dic, <<p>>)
              /\ _select_pass(nick, g.dic, <<p>>).done
              /\ \E lines \in MainNickLines, typed \in TypedLines :
                    Shown(update_pass(nick, g.c, g.dic, <<p>>, lines, typed),
                          "update_pass", "main", NoFile)

\* keymaster delete [nickname]
MainDelete ==
    /\ session = "main"
    /\ LET g == get_data(db)
       IN  \E nick \in Argv, p \in PosTexts :
              /\ Unasked(nick, g.dic, <<p>>)
              /\ Shown(delete_pass(nick, g.c, g.dic, <<p>>), "delete_pass", "main", NoFile)

MainNext ==
    \/ MainCreate
    \/ MainUpdate
    \/ MainDelete

MainSpec == MainInit /\ [][MainNext]_vars

\* the proto-passwords entered
Protos == {"", "pw"}
(* every command of keymaster, and the window opened for one Get: each a
   process of its own that loads the data, runs one handler and ends; the
   entries are made with the answers of TypedFor *)

\* the lines typed at the two getpass prompts, pair after pair
ProtoLines == {<<"", "", "pw", "pw">>, <<"pw", "pw">>, <<"", "pw">>,
               <<"", "pw", "pw", "pw">>, <<"pw", "", "", "pw", "", "">>}

\* the lines typed after a position was answered: a pair that matches, or one
\* that does not and nothing after it
ShortProtoLines == {<<"pw", "pw">>, <<"", "pw">>}

\* a command that may derive a password, with what it wrote
Ran(r, op, nick, answers, lines) ==
    /\ Applied(r, op, "run", NoFile)
    /\ printed' = r.printed
    /\ derivation' = r.derivation
    /\ console' = [NoConsole EXCEPT !.argv = nick, !.answers = answers, !.lines = lines]

RunInit == StartWith("run")

\* keymaster create [nickname]
RunCreate ==
    /\ session = "run"
    /\ Len(db.durable) < MaxRows - 1
    /\ LET g == get_data(db)
       IN  \E nick \in Argv, lines \in MainNickLines, special \in BOOLEAN :
              /\ UnaskedNick(nick, g.dic, lines)
              /\ Ran(Deriving(create_pass(nick, g.c, g.dic, lines, TypedFor(special)), Underived),
                     "create_pass", nick, <<>>, <<>>)

\* keymaster update [nickname]
RunUpdate ==
    /\ session = "run"
    /\ LET g == get_data(db)
       IN  \E nick \in Argv, answers \in PositionLines :
              /\ Unasked(nick, g.dic, answers)
              /\ _select_pass(nick, g.dic, answers).done
              /\ \E lines \in NickLines, special \in BOOLEAN :
                    /\ _create_pass_get_nick(nick, g.dic, lines).done
                    /\ Len(_create_pass_get_nick(nick, g.dic, lines).printed)
                          = IF nick.some THEN Len(lines) ELSE Len(lines) - 1
                    /\ Ran(Deriving(update_pass(nick, g.c, g.dic, answers, lines,
                                                TypedFor(special)),
                                    Underived),
                           "update_pass", nick, answers, lines)

\* keymaster delete [nickname]
RunDelete ==
    /\ session = "run"
    /\ LET g == get_data(db)
       IN  \E nick \in Argv, answers \in PositionLines :
              /\ Unasked(nick, g.dic, answers)
              /\ Ran(Deriving(delete_pass(nick, g.c, g.dic, answers), Underived), "delete_pass",
                     nick, answers, <<>>)

\* keymaster get [nickname]
RunGet ==
    /\ session = "run"
    /\ LET g == get_data(db)
       IN  \E nick \in Argv, p \in PosTexts, typed \in ProtoLines :
              /\ Unasked(nick, g.dic, <<p>>)
              /\ p # <<>> => typed \in ShortProtoLines
              /\ Ran(get_pass(nick, g.c, g.dic, <<p>>, typed), "get_pass", nick, <<p>>, typed)

\* keymaster hint [nickname]
RunHint ==
    /\ session = "run"
    /\ LET g == get_data(db)
       IN  \E nick \in Argv, answers \in PositionLines :
              /\ Unasked(nick, g.dic, answers)
              /\ Ran(Deriving(hint_pass(nick, g.c, g.dic, answers), Underived), "hint_pass",
                     nick, answers, <<>>)

\* keymaster list [nickname]
RunList ==
    /\ session = "run"
    /\ LET g == get_data(db)
       IN  \E nick \in Argv :
              Ran(Deriving(Wrote(list_pass(nick, g.dic), Returned(g.c, g.dic, <<>>, NoPassword, "ok")),
                           Underived),
                  "list_pass", nick, <<>>, <<>>)

\* the window: start(), Get on the selected nickname, and the window dismissed
RunQtGet ==
    /\ session = "run"
    /\ LET g == get_data(db)
       IN  /\ WidgetsEnabled(g.dic)
           /\ \E selected_text \in CurrentTexts(g.dic), proto_pw_1 \in Protos :
                 LET r == get_password(selected_text, proto_pw_1, g.c, g.dic)
                 IN  Ran(Deriving([r EXCEPT !.c = reject(r.c)], r.derivation), "get_password",
                         None, <<>>, <<>>)

RunNext ==
    \/ RunCreate
    \/ RunUpdate
    \/ RunDelete
    \/ RunGet
    \/ RunHint
    \/ RunList
    \/ RunQtGet

RunSpec == RunInit /\ [][RunNext]_vars

(* the derivation called directly, as its tests do: a Password is constructed,
   then asked for the password of one proto-password after another *)

\* start and finish: inside the encoded text, at its ends, past them, negative
Starts == {-200, -3, 0, 5, 88, 103, 104}
Finishes == {-100, -1, 4, 15, 87, 103, 104, 300}

\* base 16 is what the command line lets through besides 32 and 64
Bases == {16, 32, 64}

DeriveInit == StartWith("derive")

\* Password(nickname, "user", "host", special_char, base, iteration, hint, start, finish)
NewPassword ==
    /\ session = "derive"
    /\ derivation = NoDerivation
    /\ \E nickname \in Nicks, special_char \in BOOLEAN, base \in Bases, iteration \in {1, 2},
          hint \in {"", "hint"}, start \in Starts, finish \in Finishes :
          derivation' = [proto |-> "", error |-> "none", result |-> <<>>,
                         pw |-> Password(nickname, "user", "host", PyBool(special_char), base,
                                         iteration, hint, start, finish)]
    /\ lastOp' = [op |-> "Password", nick |-> <<>>, pw |-> NoPassword]
    /\ UNCHANGED <<db, passwords_dic, outcome, commits, before, session, fs, callbacks,
                   printed, form, console>>

\* password.calculate_password(user_proto_pw)
CalculatePassword ==
    /\ session = "derive"
    /\ derivation.pw # NoPassword
    /\ \E user_proto_pw \in Protos :
          LET r == calculate_password(derivation.pw, user_proto_pw)
          IN  derivation' = [derivation EXCEPT !.proto = user_proto_pw,
                                               !.result = r.result, !.error = r.error]
    /\ lastOp' = [op |-> "calculate_password", nick |-> <<>>, pw |-> NoPassword]
    /\ UNCHANGED <<db, passwords_dic, outcome, commits, before, session, fs, callbacks,
                   printed, form, console>>

DeriveNext ==
    \/ NewPassword
    \/ CalculatePassword

DeriveSpec == DeriveInit /\ [][DeriveNext]_vars

(* opening the store: get_data against the file system, process after process *)

OpenInit ==
    /\ db = NoFile
    /\ passwords_dic = <<>>
    /\ outcome = "ok"
    /\ commits = <<>>
    /\ lastOp = [op |-> "none", nick |-> <<>>, pw |-> NoPassword]
    /\ before = NoFile
    /\ session = "none"
    /\ \E path \in Paths :
          \E dirs \in SUBSET Ancestors(os_path_dirname(path)) :
             /\ \A dir \in dirs : Ancestors(dir) \subseteq dirs
             /\ fs = [path |-> path, dirs |-> dirs, file |-> FALSE]
    /\ callbacks = <<>>
    /\ derivation = NoDerivation
    /\ printed = <<>>
    /\ form = NoForm
    /\ console = NoConsole

\* a process starts and calls get_data; it goes on only if it was handed a store
OpenGetData ==
    /\ session = "none"
    /\ \E answer \in BOOLEAN :
          LET g == PasswordDB_get_data(fs, db, answer)
          IN  /\ db' = DbOf(g.r.c)
              /\ passwords_dic' = g.r.dic
              /\ outcome' = IF g.r.c.error # "ok" THEN g.r.c.error ELSE g.r.status
              /\ commits' = g.r.c.commits
              /\ lastOp' = [op |-> "get_data", nick |-> <<>>, pw |-> NoPassword]
              /\ before' = db
              /\ session' = IF g.r.c.error = "ok" /\ g.r.status = "ok" THEN "store" ELSE "none"
              /\ fs' = g.fs
              /\ callbacks' = g.callbacks
              /\ UNCHANGED <<derivation, printed, form, console>>

\* the process ends: its connection goes, and with it what it had not committed
OpenExit ==
    /\ session = "store"
    /\ db' = [db EXCEPT !.open = FALSE, !.rows = db.durable]
    /\ passwords_dic' = <<>>
    /\ session' = "none"
    /\ lastOp' = [op |-> "exit", nick |-> <<>>, pw |-> NoPassword]
    /\ UNCHANGED <<outcome, commits, before, fs, callbacks, derivation, printed, form,
                   console>>

\* between two processes the user removes the database file
OpenUnlink ==
    /\ session = "none"
    /\ fs.file
    /\ fs' = [fs EXCEPT !.file = FALSE]
    /\ db' = NoFile
    /\ lastOp' = [op |-> "unlink", nick |-> <<>>, pw |-> NoPassword]
    /\ UNCHANGED <<passwords_dic, outcome, commits, before, session, callbacks, derivation,
                   printed, form, console>>

\* pass_db.delete_password(nickname) for a nickname of the store
OpenDelete ==
    /\ session = "store"
    /\ db.open
    /\ \E n \in {db.rows[i][1] : i \in 1..Len(db.rows)} :
          Finish(Returned(delete_password(Call(db), ByNick(n)), passwords_dic,
                          n, NoPassword, "ok"),
                 "delete_password", "store", NoFile)

OpenNext ==
    \/ OpenGetData
    \/ CallCreate
    \/ OpenDelete
    \/ OpenExit
    \/ OpenUnlink

OpenSpec == OpenInit /\ [][OpenNext]_vars

\* ---- the edit form alone: one EditController, prepared by clear() or
\* populate_form_from_password(), changed by the user, closed with OK or Cancel

\* the entries a form is populated from: the core accepts every combination
FormEntries ==
    {Password(nickname, "user", "host", PyBool(special_char), base, iteration, "hint", 0, 15) :
        nickname \in Nicks, special_char \in BOOLEAN, base \in Bases, iteration \in {1, 2}}

\* what the widgets show
Widgets(self) ==
    <<self.nickname, self.username, self.hostname, self.special_char, self.base,
      self.iteration, self.hint, self.start, self.finish>>

\* the form after a call made by the main window, which prepares it for one use
Prepared(self, how) ==
    [self EXCEPT !.prepared = how, !.touched = FALSE, !.asked = FALSE, !.result = "none"]

\* the form after the user acted on a widget
Touched(self) == [self EXCEPT !.touched = form.touched \/ Widgets(self) # Widgets(form)]

EditStep(self, op, pw_obj) ==
    /\ session = "edit"
    /\ form' = self
    /\ lastOp' = [op |-> op, nick |-> <<>>, pw |-> pw_obj]
    /\ UNCHANGED <<db, passwords_dic, outcome, commits, before, session, fs, callbacks,
                   derivation, printed, console>>

EditInit ==
    /\ db = NoFile
    /\ passwords_dic = <<>>
    /\ outcome = "ok"
    /\ commits = <<>>
    /\ lastOp = [op |-> "none", nick |-> <<>>, pw |-> NoPassword]
    /\ before = NoFile
    /\ session = "edit"
    /\ fs = DefaultFs
    /\ callbacks = <<>>
    /\ derivation = NoDerivation
    /\ printed = <<>>
    /\ form = NoForm
    /\ console = NoConsole

\* edit_form.start()
EditStart ==
    /\ ~form.started
    /\ EditStep(EditController_start(form), "start", NoPassword)

\* edit_form.clear()
EditClear ==
    /\ form.started
    /\ EditStep(Prepared(clear(form), "clear"), "clear", NoPassword)

\* edit_form.populate_form_from_password(orig_pass)
EditPopulate ==
    /\ form.started
    /\ \E pw_obj \in FormEntries :
          EditStep(Prepared(populate_form_from_password(form, pw_obj), "populate"), "populate", pw_obj)

\* the user types in the nickname line edit
UserNickname ==
    /\ form.started
    /\ \E text \in Nicks : EditStep(Touched(setValue(form, "nickname", text)), "nickname", NoPassword)

\* the user steps the iteration spin box
UserIteration ==
    /\ form.started
    /\ \E value \in {1, 2} : EditStep(Touched(setValue(form, "iteration", value)), "iteration", NoPassword)

\* the user picks a base in the combo box
UserBase ==
    /\ form.started
    /\ \E text \in {"32", "64"} : EditStep(Touched(setCurrentIndex(form, text)), "base", NoPassword)

\* the user clicks the special-characters check box
UserSpecialChar ==
    /\ form.started
    /\ EditStep(Touched(setChecked(form, ~form.special_char)), "special_char", NoPassword)

\* the user presses OK and answers the message box if there is one
EditAccept ==
    /\ form.started
    /\ \E response \in BOOLEAN : EditStep(confirm_accept(form, response), "confirm_accept", NoPassword)

\* the user presses Cancel
EditReject ==
    /\ form.started
    /\ EditStep([form EXCEPT !.asked = FALSE, !.result = "rejected"], "reject", NoPassword)

EditNext ==
    \/ EditStart
    \/ EditClear
    \/ EditPopulate
    \/ UserNickname
    \/ UserIteration
    \/ UserBase
    \/ UserSpecialChar
    \/ EditAccept
    \/ EditReject

EditSpec == EditInit /\ [][EditNext]_vars

\* ---- the number prompts of create: one process for each command, what is
\* typed at the prompt for the base recorded

\* a line typed at a number prompt: empty, "x", "64", "-1"
IntTexts == {<<>>, <<120>>, <<54, 52>>, <<45, 49>>}

\* the lines typed until the prompt is satisfied or the user stops typing
IntLines ==
    {<<>>} \cup {<<t>> : t \in IntTexts} \cup {<<t, u>> : t, u \in IntTexts}
    \cup {<<(<<120>>), t, u>> : t, u \in IntTexts}

ReadInit == StartWith("read")

\* _read_default_int(prompt, default) on its own
ReadInt ==
    /\ session = "read"
    /\ db.durable = <<>>
    /\ \E lines \in IntLines, default \in {NoDefault, Default(32), Default(15)} :
          LET r == _read_default_int(lines, default)
          IN  console' = [NoConsole EXCEPT !.lines = lines, !.default = default,
                                           !.done = r.done, !.num = r.num]
    /\ lastOp' = [op |-> "_read_default_int", nick |-> <<>>, pw |-> NoPassword]
    /\ UNCHANGED <<db, passwords_dic, outcome, commits, before, session, fs, callbacks,
                   derivation, printed, form>>

\* keymaster create nickname, with lines typed at the prompt for the base (on
\* an empty store; the default for a further entry)
ReadCreate ==
    /\ session = "read"
    /\ Len(db.durable) < MaxRows
    /\ LET g == get_data(db)
       IN  \E nickname \in Nicks,
              lines \in IF db.durable = <<>> THEN IntLines ELSE {<<(<<>>)>>} :
              LET typed == Typed("user", "host", <<>>, lines, <<(<<>>)>>, "hint",
                                 <<(<<>>)>>, <<(<<>>)>>)
                  r == _read_default_int(lines, Default(32))
              IN  /\ nickname \notin DOMAIN g.dic
                  /\ r.done /\ r.rest = <<>>
                  /\ Applied(create_pass(Some(nickname), g.c, g.dic, <<>>, typed),
                             "create_pass", "read", NoFile)
                  /\ console' = [NoConsole EXCEPT !.argv = Some(nickname), !.lines = lines,
                                                   !.default = Default(32), !.done = r.done,
                                                   !.num = r.num]
                  /\ UNCHANGED <<derivation, printed>>

\* the lines typed at "Choose identity: ": one answer, or two
SelectLines == {<<t>> : t \in PosTexts} \cup {<<t, u>> : t, u \in PosTexts}

\* keymaster hint [nickname]
ReadHint ==
    /\ session = "read"
    /\ LET g == get_data(db)
       IN  \E nick \in Argv, answers \in SelectLines :
              /\ Unasked(nick, g.dic, answers)
              /\ Applied(hint_pass(nick, g.c, g.dic, answers), "hint_pass", "read", NoFile)
              /\ printed' = hint_pass(nick, g.c, g.dic, answers).printed
              /\ console' = [NoConsole EXCEPT !.argv = nick, !.answers = answers]
              /\ UNCHANGED derivation

\* keymaster delete nickname
ReadDelete ==
    /\ session = "read"
    /\ LET g == get_data(db)
       IN  \E nickname \in DOMAIN g.dic :
              /\ Applied(delete_pass(Some(nickname), g.c, g.dic, <<>>), "delete_pass", "read",
                         NoFile)
              /\ console' = NoConsole
              /\ printed' = <<>>
              /\ UNCHANGED derivation

ReadNext ==
    \/ ReadInt
    \/ ReadCreate
    \/ ReadDelete
    \/ ReadHint

ReadSpec == ReadInit /\ [][ReadNext]_vars

-----------------------------------------------------------------------------
(* the main window on its own: every button, with what was selected in the
   nickname box and whether the dialog or the confirmation box was accepted *)

\* a handler of the window has returned: console.argv is the text of the
\* nickname box, console.done whether the box it showed was accepted
Clicked(r, op, selected_text, accepted) ==
    /\ Applied(r, op, "window", NoFile)
    /\ printed' = r.printed
    /\ derivation' = r.derivation
    /\ console' = [NoConsole EXCEPT !.argv = Some(selected_text), !.done = accepted]

WindowInit == StartWith("window")

\* button_new, and the edit dialog until it is cancelled or holds good data
WindowNew ==
    /\ session = "window"
    /\ Len(db.rows) < MaxRows
    /\ \E selected_text \in CurrentTexts(passwords_dic), dialogs \in DialogLines :
          LET r == create_or_update_password(FALSE, selected_text, Call(db), passwords_dic,
                                             dialogs)
          IN  Clicked(Deriving(r, Underived), "qt_new", selected_text, r.status = "ok")

\* button_update
WindowUpdate ==
    /\ session = "window"
    /\ WidgetsEnabled(passwords_dic)
    /\ \E selected_text \in CurrentTexts(passwords_dic), dialogs \in DialogLines :
          LET r == create_or_update_password(TRUE, selected_text, Call(db), passwords_dic,
                                             dialogs)
          IN  Clicked(Deriving(r, Underived), "qt_update", selected_text, r.status = "ok")

\* button_delete, and the answer to "Are you sure?"
WindowDelete ==
    /\ session = "window"
    /\ WidgetsEnabled(passwords_dic)
    /\ \E selected_text \in CurrentTexts(passwords_dic), confirmed \in BOOLEAN :
          Clicked(Deriving(qt_delete_password(selected_text, confirmed, Call(db), passwords_dic),
                           Underived),
                  "qt_delete", selected_text, confirmed)

\* button_get, or return pressed in the proto-password line
WindowGet ==
    /\ session = "window"
    /\ WidgetsEnabled(passwords_dic)
    /\ \E selected_text \in CurrentTexts(passwords_dic), proto_pw_1 \in Protos :
          Clicked(get_password(selected_text, proto_pw_1, Call(db), passwords_dic),
                  "get_password", selected_text, TRUE)

\* button_hint
WindowHint ==
    /\ session = "window"
    /\ WidgetsEnabled(passwords_dic)
    /\ \E selected_text \in CurrentTexts(passwords_dic) :
          Clicked(Deriving(get_hint(selected_text, Call(db), passwords_dic), Underived),
                  "get_hint", selected_text, TRUE)

WindowNext ==
    \/ WindowNew
    \/ WindowUpdate
    \/ WindowDelete
    \/ WindowGet
    \/ WindowHint

WindowSpec == WindowInit /\ [][WindowNext]_vars

-----------------------------------------------------------------------------
(* Properties *)

\* the nicknames that have a row in the table rows
NicksIn(rows) == {rows[i][1] : i \in 1..Len(rows)}

\* the rows of the table rows stored under nicknames outside S, in order
RowsOutside(rows, S) ==
    LET Keep(r) == r[1] \notin S
    IN  SelectSeq(rows, Keep)

\* the two mappings have the same keys and equal Passwords under each key
SameMapping(m1, m2) ==
    /\ DOMAIN m1 = DOMAIN m2
    /\ \A k \in DOMAIN m1 : Password_eq(m1[k], m2[k])

MutatingHandlers ==
    {"create_pass", "update_pass", "delete_pass", "qt_new", "qt_update", "qt_delete"}

\* C1: after every completed front-end mutating operation the in-memory mapping
\* equals what get_all_password_objects() returns from the store: the same keys,
\* an equal Password under every key.
C1_MappingMatchesStore ==
    lastOp.op \in MutatingHandlers =>
        SameMapping(passwords_dic, get_all_password_objects(db))

\* C1 witness: a Qt update that renamed an entry onto the nickname of another one
C1_Witness ==
    /\ lastOp.op = "qt_update"
    /\ outcome = "ok"
    /\ lastOp.nick # lastOp.pw.nickname
    /\ Len(db.rows) > Cardinality(DOMAIN passwords_dic)

\* C2: after any sequence of front-end operations on a store that started empty
\* get_list_of_nicks() holds no nickname twice.
C2_NicknamesUnique ==
    LET nicks == get_list_of_nicks(db)
    IN  \A i, j \in 1..Len(nicks) : i # j => nicks[i] # nicks[j]

\* C3: create_new_password(e) followed by get_all_password_objects() gives a
\* mapping with an entry equal to e (all nine fields) under e.nickname.
C3_CreateRoundTrip ==
    lastOp.op = "create_new_password" =>
        LET m == get_all_password_objects(db)
        IN  /\ lastOp.pw.nickname \in DOMAIN m
            /\ Password_eq(m[lastOp.pw.nickname], lastOp.pw)
            /\ m[lastOp.pw.nickname].nickname = lastOp.pw.nickname

\* C3 witness: an entry with special characters was created under a nickname
\* that already had a row
C3_Witness ==
    /\ lastOp.op = "create_new_password"
    /\ lastOp.pw.special_char = PyBool(TRUE)
    /\ lastOp.pw.nickname \in NicksIn(before.rows)

\* C4: after delete_password(n), given a nickname or a Password object, neither
\* get_all_password_objects() nor get_list_of_nicks() contains n, and every
\* entry stored under another nickname is unchanged.
C4_DeleteRemovesOnlyThat ==
    lastOp.op = "delete_password" =>
        LET n == lastOp.nick
            nicks == get_list_of_nicks(db)
            m == get_all_password_objects(db)
            m0 == get_all_password_objects(before)
        IN  /\ n \notin DOMAIN m
            /\ \A i \in 1..Len(nicks) : nicks[i] # n
            /\ DOMAIN m = DOMAIN m0 \ {n}
            /\ \A k \in DOMAIN m : m[k] = m0[k]
            /\ RowsOutside(db.rows, {n}) = RowsOutside(before.rows, {n})

\* C4 witness: a Password object was given, its nickname had two rows and
\* another entry was stored
C4_Witness ==
    /\ lastOp.op = "delete_password"
    /\ lastOp.pw \in Entries
    /\ Cardinality({i \in 1..Len(before.rows) : before.rows[i][1] = lastOp.nick}) = 2
    /\ Len(db.rows) = 1

\* C5: after update_old_password(old_nick, e2) with e2.nickname # old_nick no
\* entry is left under old_nick, the entry under e2.nickname equals e2, and
\* every other entry is unchanged.
C5_UpdateRename ==
    (lastOp.op = "update_old_password" /\ lastOp.pw.nickname # lastOp.nick) =>
        LET old == lastOp.nick
            new == lastOp.pw.nickname
            m == get_all_password_objects(db)
            m0 == get_all_password_objects(before)
        IN  /\ old \notin DOMAIN m
            /\ old \notin NicksIn(db.rows)
            /\ new \in DOMAIN m
            /\ Password_eq(m[new], lastOp.pw)
            /\ DOMAIN m \ {new} = DOMAIN m0 \ {old, new}
            /\ \A k \in DOMAIN m \ {new} : m[k] = m0[k]
            /\ RowsOutside(db.rows, {old, new}) = RowsOutside(before.rows, {old, new})

\* C5 witness: the old nickname had a row, and so had a third nickname
C5_Witness ==
    /\ lastOp.op = "update_old_password"
    /\ lastOp.pw.nickname # lastOp.nick
    /\ lastOp.nick \in NicksIn(before.rows)
    /\ NicksIn(db.rows) \ {lastOp.nick, lastOp.pw.nickname} # {}

\* C6: update_old_password deletes and inserts inside one transaction with a
\* single commit: no committed table has lost the old entry without holding the
\* new one.
C6_UpdateAtomic ==
    lastOp.op = "update_old_password" =>
        /\ Len(commits) = 1
        /\ \A i \in 1..Len(commits) :
              \E j \in 1..Len(commits[i]) : commits[i][j] = RowOf(lastOp.pw)
        /\ db.durable = commits[Len(commits)]

\* C6 witness: an update that renamed an entry that was stored
C6_Witness ==
    /\ lastOp.op = "update_old_password"
    /\ lastOp.pw.nickname # lastOp.nick
    /\ lastOp.nick \in NicksIn(before.durable)
    /\ lastOp.nick \notin NicksIn(db.durable)

\* C7: every mutating store call has committed when it returns: between two
\* store calls the connection holds no uncommitted write.
C7_NothingPending ==
    /\ db.rows = db.durable
    /\ lastOp.op \in {"create_new_password", "update_old_password", "delete_password"} =>
          commits # <<>> /\ commits[Len(commits)] = db.rows

\* C7 witness: a delete that removed a row has returned
C7_Witness ==
    /\ lastOp.op = "delete_password"
    /\ Len(db.durable) < Len(before.durable)

\* l is in ascending lexical order
Ascending(l) == \A i, j \in 1..Len(l) : i < j => ~StrLess(l[j], l[i])

\* n occurs as often in l as in k
SameCount(l, k, n) ==
    Cardinality({i \in 1..Len(l) : l[i] = n}) = Cardinality({i \in 1..Len(k) : k[i] = n})

\* C8: whatever the insertion order, get_list_of_nicks() returns all stored
\* nicknames in ascending lexical order.
C8_NicksSorted ==
    LET nicks == get_list_of_nicks(db)
    IN  /\ Ascending(nicks)
        /\ Len(nicks) = Len(db.rows)
        /\ \A n \in Nicks : SameCount(nicks, NickColumn(db.rows), n)

\* C8 witness: three nicknames stored in descending order
C8_Witness ==
    /\ Len(db.rows) = 3
    /\ StrLess(db.rows[3][1], db.rows[2][1])
    /\ StrLess(db.rows[2][1], db.rows[1][1])

\* C9 as claimed: delete_password(n) for a nickname without a row ends in a
\* NotFound error and leaves the store unchanged.
C9_DeleteAbsentNotFound ==
    (lastOp.op = "delete_password" /\ lastOp.nick \notin NicksIn(before.rows)) =>
        outcome = "NotFound" /\ db = before

\* C9 amended: delete_password(n) for a nickname without a row returns without
\* an error and leaves the store unchanged.
C9_DeleteAbsentSilent ==
    (lastOp.op = "delete_password" /\ lastOp.nick \notin NicksIn(before.rows)) =>
        outcome = "ok" /\ db = before /\ commits = <<before.durable>>

\* C9 witness: a delete of a nickname without a row on a table that is not empty
C9_Witness ==
    /\ lastOp.op = "delete_password"
    /\ lastOp.nick \notin NicksIn(before.rows)
    /\ before.rows # <<>>

\* C10: close_db on a store that is closed already completes without an error
\* and leaves the store closed with the same persisted contents.
C10_CloseIdempotent ==
    (lastOp.op = "close_db" /\ ~before.open) =>
        outcome = "ok" /\ ~db.open /\ db.durable = before.durable

\* the last call was get_data, it asked whether to create and was told answer
GetDataAsked(answer) ==
    /\ lastOp.op = "get_data"
    /\ callbacks # <<>>
    /\ Head(callbacks) = Asked(answer)

\* C11: get_data on a path without a store, told not to create one, returns
\* (None, None), creates neither the file nor a directory, and does not invoke
\* the error callback.
C11_DeclineNoSideEffects ==
    [][session = "none" /\ ~os_path_exists(fs, fs.path) /\ (GetDataAsked(FALSE))' =>
          /\ outcome' = "none_none"
          /\ fs' = fs
          /\ db' = db
          /\ ~db'.open
          /\ \A i \in 1..Len(callbacks') : callbacks'[i].name # "error_getting_db"]_vars

\* C11 witness: creation was declined where the directory of the path is missing
C11_Witness ==
    /\ GetDataAsked(FALSE)
    /\ outcome = "none_none"
    /\ os_path_dirname(fs.path) # <<>>
    /\ ~os_path_exists(fs, os_path_dirname(fs.path))

\* C12: get_data on a path without a store, told to create one, returns an open
\* store with no nicknames and an empty mapping, the file in place, whatever the
\* path is.
C12_CreateAnywhere ==
    GetDataAsked(TRUE) =>
        /\ outcome = "ok"
        /\ db.open
        /\ fs.file
        /\ get_list_of_nicks(db) = <<>>
        /\ passwords_dic = <<>>

\* C13: every entry in the store or in the mapping that came through a front
\* end has a nickname that is not empty.
C13_NicknameNotEmpty ==
    /\ <<>> \notin NicksIn(db.rows)
    /\ <<>> \notin NicksIn(db.durable)
    /\ <<>> \notin DOMAIN passwords_dic

\* C14: every entry stored through a front end has base 32 or base 64.
C14_BaseIsEnumerated ==
    /\ \A i \in 1..Len(db.durable) : PasswordOfRow(db.durable[i]).base \in {32, 64}
    /\ \A n \in DOMAIN passwords_dic : passwords_dic[n].base \in {32, 64}

\* calculate_password has been called on an entry whose base is 32 or 64
Calculated ==
    /\ lastOp.op = "calculate_password"
    /\ derivation.pw.base \in {32, 64}

\* C15: for every proto-password, base 32 or 64, either special_char and any
\* start and finish, calculate_password returns a string and raises nothing.
C15_DerivationTotal ==
    Calculated =>
        /\ derivation.error = "ok"
        /\ \A i \in 1..Len(derivation.result) : derivation.result[i] \in 33..126

\* C15 witness: a password was calculated for a window that ends before it
\* starts, and for one that starts past the end of the encoded text
C15_Witness ==
    /\ Calculated
    /\ \/ derivation.pw.finish < derivation.pw.start /\ derivation.pw.start >= 0
       \/ derivation.pw.start >= 104

\* C17: with 0 <= start <= finish and L the length of the encoded text (104 in
\* base 32, 88 in base 64) the password has min(finish, L-1) - start + 1
\* characters when start < L and none when start >= L.
C17_WindowLength ==
    LET L == IF derivation.pw.base = 32 THEN 104 ELSE 88
        start == derivation.pw.start
        finish == derivation.pw.finish
    IN  (Calculated /\ 0 <= start /\ start <= finish) =>
            Len(derivation.result) =
                IF start >= L THEN 0
                ELSE (IF finish < L - 1 THEN finish ELSE L - 1) - start + 1

\* C17 witness: a window that runs past the end of the base-64 text
C17_Witness ==
    /\ Calculated
    /\ derivation.pw.base = 64
    /\ derivation.pw.start \in 0..87
    /\ derivation.pw.finish >= 88
    /\ derivation.result # <<>>

\* the lower-cased window of the encoded text the last password was cut from
LoweredWindow ==
    LET pw == derivation.pw
        digest == sha512(derivation.proto \o pw.username \o "@" \o pw.hostname
                            \o ToString(pw.iteration))
        text == IF pw.base = 32 THEN b32encode(digest) ELSE b64encode(digest)
    IN  lower(PySlice(text, pw.start, pw.finish + 1))

\* C18: without special characters the password is the lower-cased window with
\* the first "b", the first "d" and the first "z" upper-cased and every other
\* position as it was.
C18_FirstBDZUpper ==
    LET window == LoweredWindow
    IN  (Calculated /\ derivation.pw.special_char.v = 0) =>
            /\ Len(derivation.result) = Len(window)
            /\ \A i \in 1..Len(window) :
                  LET ch == window[i]
                      first == ch \in {98, 100, 122} /\ \A j \in 1..(i - 1) : window[j] # ch
                  IN  derivation.result[i] = IF first THEN ch - 32 ELSE ch

\* C18 witness: test_basic_usage_no_sp_chars, "5wjDnwdyj4uxZd6g": the first "d"
\* and the "z" upper-cased, the two later "d" left alone
C18_Witness ==
    /\ Calculated
    /\ derivation.pw.special_char.v = 0
    /\ derivation.result = <<53, 119, 106, 68, 110, 119, 100, 121, 106, 52, 117, 120, 90, 100, 54, 103>>

\* C19: with special characters the password is the one without them with
\* a, c, e, r, s replaced by @, (, *, ^, $; it holds none of a, c, e, r, s and
\* every other character is unchanged.
C19_Substitution ==
    LET plain == calculate_password([derivation.pw EXCEPT !.special_char = PyBool(FALSE)],
                                    derivation.proto).result
        sub(ch) == IF ch = 97 THEN 64 ELSE IF ch = 99 THEN 40 ELSE IF ch = 101 THEN 42
                   ELSE IF ch = 114 THEN 94 ELSE IF ch = 115 THEN 36 ELSE ch
    IN  (Calculated /\ derivation.pw.special_char.v # 0) =>
            /\ Len(derivation.result) = Len(plain)
            /\ \A i \in 1..Len(plain) :
                  /\ derivation.result[i] = sub(plain[i])
                  /\ derivation.result[i] \notin {97, 99, 101, 114, 115}

\* C19 witness: test_basic_usage_with_sp_chars, "$ifZ6kv@p9xmyf(1"
C19_Witness ==
    /\ Calculated
    /\ derivation.pw.special_char.v # 0
    /\ derivation.result = <<36, 105, 102, 90, 54, 107, 118, 64, 112, 57, 120, 109, 121, 102, 40, 49>>

\* C20: an entry that differs from the one used only in its nickname and hint
\* gives the same password for the same proto-password.
C20_MnemonicFieldsIgnored ==
    Calculated =>
        \A nickname \in Nicks, hint \in {"", "hint"} :
            calculate_password([derivation.pw EXCEPT !.nickname = nickname, !.hint = hint],
                               derivation.proto)
                = Derived(derivation.result, derivation.error)

\* C20 witness: a password calculated for an entry that has a hint and a nickname
C20_Witness ==
    /\ Calculated
    /\ derivation.pw.hint = "hint"
    /\ derivation.pw.nickname # <<>>
    /\ derivation.result # <<>>

\* the mapping a process loads from the committed table rows
Loaded(rows) == get_all_password_objects([open |-> TRUE, rows |-> rows, durable |-> rows])

\* the last command derived and showed a password
ShowedPassword ==
    /\ lastOp.op \in {"get_pass", "get_password"}
    /\ derivation.error = "ok"
    /\ printed # <<>>
    /\ printed[Len(printed)].what = "password"

\* C21: a command that derives a password leaves the committed rows as they
\* were, the mapping as it was loaded and the entry it used as it is stored; a
\* row is always the nine fields of an entry.
C21_NothingDerivedIsKept ==
    /\ [](\A i \in 1..Len(db.durable) :
             /\ Len(db.durable[i]) = 9
             /\ RowOf(PasswordOfRow(db.durable[i])) = db.durable[i])
    /\ [][ShowedPassword' /\ session = "run" =>
             /\ db'.durable = db.durable
             /\ db'.rows = db.durable
             /\ passwords_dic' = Loaded(db.durable)
             /\ derivation'.pw = Loaded(db.durable)[lastOp'.nick]
             /\ lastOp'.pw = derivation'.pw]_vars

\* C21 witness: a password was shown for an entry of a store with two entries
C21_Witness ==
    /\ ShowedPassword
    /\ derivation.result # <<>>
    /\ Len(db.durable) = 2

\* the last password was calculated for the entry of the two usage tests:
\* Password(_, "user", "host", special_char, base, iteration, _, 0, 15) and ""
Vector(special_char, base, iteration) ==
    /\ lastOp.op = "calculate_password"
    /\ derivation.proto = ""
    /\ derivation.pw.username = "user"
    /\ derivation.pw.hostname = "host"
    /\ derivation.pw.start = 0
    /\ derivation.pw.finish = 15
    /\ derivation.pw.special_char = PyBool(special_char)
    /\ derivation.pw.base = base
    /\ derivation.pw.iteration = iteration

\* C22: calculate_password("") gives "5wjDnwdyj4uxZd6g" for the entry without
\* special characters, base 32, iteration 1, and "$ifZ6kv@p9xmyf(1" for the
\* entry with special characters, base 64, iteration 2.
C22_KnownAnswers ==
    /\ Vector(FALSE, 32, 1) =>
          /\ derivation.error = "ok"
          /\ derivation.result = <<53, 119, 106, 68, 110, 119, 100, 121, 106, 52, 117, 120,
                                   90, 100, 54, 103>>
    /\ Vector(TRUE, 64, 2) =>
          /\ derivation.error = "ok"
          /\ derivation.result = <<36, 105, 102, 90, 54, 107, 118, 64, 112, 57, 120, 109,
                                   121, 102, 40, 49>>

\* C22 witness: the password of the base-64 usage test was calculated, for an
\* entry whose nickname and hint are not those of the test
C22_Witness ==
    /\ Vector(TRUE, 64, 2)
    /\ derivation.pw.nickname = <<97, 98>>
    /\ derivation.pw.hint = "hint"
    /\ Len(derivation.result) = 16

\* C23: once start() has run base 64 is never selected with the box unchecked,
\* and when the user unchecks the box the base is 32 afterwards.
C23_Base64NeedsSpecialChar ==
    /\ [](form.started /\ form.base = "64" => form.special_char)
    /\ [][lastOp'.op = "special_char" /\ ~form'.special_char => form'.base = "32"]_vars

\* C23 witness: the form was populated from an entry with base 64 and without
\* special characters, and shows base 64 with the box checked
C23_Witness ==
    /\ lastOp.op = "populate"
    /\ lastOp.pw.base = 64
    /\ lastOp.pw.special_char = PyBool(FALSE)
    /\ form.base = "64"
    /\ form.special_char

\* C28: when OK is pressed the "About to update" box is shown exactly when the
\* form was last prepared by populate_form_from_password and the user has
\* changed a widget since; with no change by the user dirty_flag is false; a
\* form last prepared by clear() is accepted without the box.
C28_ConfirmOnlyChangedUpdate ==
    [][lastOp'.op = "confirm_accept" =>
          /\ form'.asked <=> (form.prepared = "populate" /\ form.touched)
          /\ ~form.touched => ~form'.dirty_flag
          /\ form.prepared = "clear" => ~form'.asked]_vars

\* the lines typed at a number prompt that are not asked for again: the
\* numbers, and the empty lines where there is a default
Kept(lines, default) ==
    LET keep(t) == int(t).ok \/ (t = <<>> /\ default.some)
    IN  SelectSeq(lines, keep)

\* C24: _read_default_int returns for the first line that is empty (the
\* default, where there is one) or a number (that number), whatever lines that
\* are not numbers were typed before it; the entry create makes from lines with
\* such a line among them is the entry it makes from the lines without it.
C24_MalformedNumberAskedAgain ==
    LET kept == Kept(console.lines, console.default)
        typed == Typed("user", "host", <<>>, kept, <<(<<>>)>>, "hint", <<(<<>>)>>, <<(<<>>)>>)
    IN  /\ lastOp.op \in {"_read_default_int", "create_pass"} /\ session = "read" =>
              /\ console.done = (kept # <<>>)
              /\ console.done =>
                    console.num = IF kept[1] = <<>> THEN console.default.num ELSE int(kept[1]).v
        /\ lastOp.op = "create_pass" /\ session = "read" =>
              /\ lastOp.pw.base = console.num
              /\ lastOp.pw = _create_pass_get_new_pass(Some(lastOp.nick), <<>>, <<>>, typed).pw
              /\ passwords_dic[lastOp.nick] = lastOp.pw

\* C24 witness: test_create_with_num_error, "x" and then "64" typed for the base
C24_Witness ==
    /\ lastOp.op = "create_pass"
    /\ session = "read"
    /\ console.lines = <<(<<120>>), (<<54, 52>>)>>
    /\ lastOp.pw.base = 64

\* the pairs of lines typed at the two proto-password prompts that agree
Matching(typed) == {i \in 1..(Len(typed) \div 2) : typed[2 * i - 1] = typed[2 * i]}

\* C25: get prints the password of the first pair of captures that agree, once
\* and last, after one mismatch message for each pair before it, and reads no
\* pair after it.
C25_ProtoPasswordConfirmed ==
    lastOp.op = "get_pass" /\ session = "run" =>
        LET typed == console.lines
            first == CHOOSE i \in Matching(typed) : \A j \in Matching(typed) : i <= j
            said == SelectSeq(printed, LAMBDA line : line.what \in {"mismatch", "password"})
        IN  /\ Matching(typed) # {}
            /\ derivation.proto = typed[2 * first]
            /\ Len(said) = first
            /\ \A j \in 1..(first - 1) : said[j].what = "mismatch"
            /\ said[first].what = "password"
            /\ said[first].text = calculate_password(lastOp.pw, typed[2 * first]).result
            /\ printed[Len(printed)] = said[first]

\* C25 witness: two pairs that differ ("pw" then "", "" then "pw"), then "" twice
C25_Witness ==
    /\ lastOp.op = "get_pass"
    /\ session = "run"
    /\ console.lines = <<"pw", "", "", "pw", "", "">>
    /\ derivation.proto = ""
    /\ printed[Len(printed)].what = "password"

\* C26: when hint selects by position, the entry it takes is the one of the
\* first answer that is a number p in 1..n, which list_pass showed as number p
\* and which has p - 1 nicknames of the mapping before it; no answer before
\* that one (a number outside 1..n, an empty line, a line that is no number)
\* selects anything.
C26_PositionSelectsListed ==
    LET n == Cardinality(DOMAIN passwords_dic)
        valid(t) == int(t).ok /\ int(t).v \in 1..n
        answered == SelectSeq(console.answers, valid)
        listed == SelectSeq(printed, LAMBDA line : line.what = "entry")
        hints == SelectSeq(printed, LAMBDA line : line.what = "hint")
    IN  lastOp.op = "hint_pass" /\ session = "read" /\ listed # <<>> =>
            /\ answered # <<>>
            /\ Len(listed) = n
            /\ LET p == int(answered[1]).v
               IN  /\ listed[p].number = p
                   /\ listed[p].nick = lastOp.pw.nickname
                   /\ lastOp.pw = passwords_dic[listed[p].nick]
                   /\ Cardinality({k \in DOMAIN passwords_dic :
                                      StrLess(k, lastOp.pw.nickname)}) = p - 1
                   /\ hints = <<Out("hint", 0, lastOp.pw.nickname, <<>>)>>

\* C26 witness: an empty line and then "2" typed at the prompt, three entries
C26_Witness ==
    /\ lastOp.op = "hint_pass"
    /\ session = "read"
    /\ console.answers = <<(<<>>), (<<50>>)>>
    /\ Cardinality(DOMAIN passwords_dic) = 3
    /\ lastOp.pw.nickname = <<97, 98>>

\* C27: a command given a nickname that is not in the mapping ends without an
\* exception and first writes "not found"; list writes nothing else and changes
\* nothing; get, hint, delete and update then write the numbered list and act
\* on the entry of the first valid answer and on no other: get and hint leave
\* store and mapping as loaded, delete and update leave every other entry.
C27_UnknownNicknameRecovered ==
    [][(/\ session = "run"
        /\ lastOp'.op \in {"get_pass", "hint_pass", "delete_pass", "update_pass", "list_pass"}
        /\ console'.argv.some
        /\ console'.argv.text \notin DOMAIN Loaded(db.durable)) =>
          LET old == Loaded(db.durable)
              keys == SortedKeys(DOMAIN old)
              valid(t) == int(t).ok /\ int(t).v \in 1..Len(keys)
              answered == SelectSeq(console'.answers, valid)
              chosen == keys[int(answered[1]).v]
              others == DOMAIN old \ {chosen}
          IN  /\ outcome' = "ok"
              /\ printed' # <<>>
              /\ printed'[1] = Out("not_found", 0, console'.argv.text, <<>>)
              /\ lastOp'.op = "list_pass" =>
                    /\ Len(printed') = 1
                    /\ db'.durable = db.durable
                    /\ passwords_dic' = old
              /\ lastOp'.op # "list_pass" =>
                    /\ answered # <<>>
                    /\ SubSeq(printed', 2, Len(keys) + 1) = list_pass(None, old)
                    /\ lastOp'.nick = chosen
                    /\ SameMapping(passwords_dic', Loaded(db'.durable))
                    /\ \A k \in others : k \in DOMAIN passwords_dic' /\ passwords_dic'[k] = old[k]
                    /\ lastOp'.op \in {"get_pass", "hint_pass"} =>
                          db'.durable = db.durable /\ passwords_dic' = old
                    /\ lastOp'.op = "delete_pass" => DOMAIN passwords_dic' = others]_vars

\* C27 witness: delete with a nickname that was not found, "0" and then "2"
\* answered, the second of two entries deleted
C27_Witness ==
    /\ session = "run"
    /\ lastOp.op = "delete_pass"
    /\ console.argv.some
    /\ console.answers = <<(<<48>>), (<<50>>)>>
    /\ printed[1].what = "not_found"
    /\ Len(db.durable) = 1
    /\ outcome = "ok"

\* C29: get_data on a path whose file exists asks nothing, commits nothing and
\* hands over an open store with the rows committed before and the mapping of
\* those rows; get_data commits (the table dropped and created) only where the
\* file did not exist and the user accepted the creation.
C29_OpenKeepsContents ==
    [][session = "none" /\ lastOp'.op = "get_data" =>
          /\ fs.file =>
                /\ outcome' = "ok"
                /\ callbacks' = <<>>
                /\ commits' = <<>>
                /\ db'.open
                /\ db'.durable = db.durable
                /\ db'.rows = db.durable
                /\ passwords_dic' = Loaded(db.durable)
                /\ fs' = fs
          /\ commits' # <<>> => ~fs.file /\ callbacks' = <<Asked(TRUE)>>]_vars

\* C29 witness: a later process opened the file an earlier one had left with
\* two entries
C29_Witness ==
    /\ lastOp.op = "get_data"
    /\ callbacks = <<>>
    /\ session = "store"
    /\ Len(db.durable) = 2
    /\ DOMAIN passwords_dic = {<<>>, <<98>>}

\* C30: an update leaves one entry under the old nickname where the new entry
\* keeps it: update_old_password(n, e2) with e2.nickname = n does, and update on
\* the command line accepts the old nickname typed at "Nickname: " and does.
C30_UpdateKeepsNickname ==
    /\ lastOp.op = "update_old_password" /\ lastOp.pw.nickname = lastOp.nick =>
          Cardinality({i \in 1..Len(db.durable) : db.durable[i][1] = lastOp.nick}) = 1
    /\ (/\ lastOp.op = "update_pass"
        /\ session = "run"
        /\ console.lines # <<>>
        /\ console.lines[1] = lastOp.nick) =>
          /\ lastOp.pw.nickname = lastOp.nick
          /\ \A i \in 1..Len(printed) : printed[i].what # "in_use"
          /\ Cardinality({i \in 1..Len(db.durable) : db.durable[i][1] = lastOp.nick}) = 1
          /\ passwords_dic[lastOp.nick] = lastOp.pw

\* the positions of the rows stored under nickname n
RowsUnder(rows, n) == {i \in 1..Len(rows) : rows[i][1] = n}

\* C31 as claimed: after any store calls, for every nickname of
\* get_list_of_nicks(), get_password_for_nick(n) equals get_all_password_objects()[n].
C31_ReadPathsAgree ==
    db.open =>
       LET nicks == get_list_of_nicks(db)
           all == get_all_password_objects(db)
       IN  \A i \in 1..Len(nicks) :
              Password_eq(get_password_for_nick(db, nicks[i]), all[nicks[i]])

\* C31 amended: get_password_for_nick(n) is the first row stored under n and
\* get_all_password_objects()[n] the last, so the two agree for every nickname
\* stored once.
C31_ReadPathsAgreeOnUnique ==
    db.open =>
       LET nicks == get_list_of_nicks(db)
           all == get_all_password_objects(db)
       IN  \A i \in 1..Len(nicks) :
              LET n == nicks[i]
                  under == RowsUnder(db.rows, n)
                  one == get_password_for_nick(db, n)
              IN  /\ \E j \in under :
                        /\ \A k \in under : j <= k
                        /\ Password_eq(one, PasswordOfRow(db.rows[j]))
                  /\ \E j \in under :
                        /\ \A k \in under : k <= j
                        /\ Password_eq(all[n], PasswordOfRow(db.rows[j]))
                  /\ Cardinality(under) = 1 => Password_eq(one, all[n])

\* C31 witness: after an update the store holds two nicknames, each stored once
C31_Witness ==
    /\ lastOp.op = "update_old_password"
    /\ db.open
    /\ Len(db.rows) = 2
    /\ db.rows[1][1] # db.rows[2][1]

\* some answers typed at "Choose identity: " make _select_pass return an entry
\* of the mapping
CanSelect(nick, pass_dic) ==
    \E answers \in SelectLines :
       LET r == _select_pass(nick, pass_dic, answers)
       IN  /\ r.done
           /\ r.nick \in DOMAIN pass_dic
           /\ r.pw = pass_dic[r.nick]

\* C32: whatever the store holds when a command that selects starts (get, hint,
\* delete, update, with any nickname argument or none), some input makes
\* _select_pass return an entry of the mapping, the empty mapping included.
C32_SelectionCanTerminate ==
    LET g == get_data(db)
    IN  \A nick \in Argv : CanSelect(nick, g.dic)

\* C33: update on the command line is atomic for the committed table: no table
\* committed during update_pass has lost the old entry without holding the new one.
C33_CliUpdateAtomic ==
    lastOp.op = "update_pass" =>
       \A i \in 1..Len(commits) :
          \/ \E j \in 1..Len(commits[i]) : commits[i][j][1] = lastOp.nick
          \/ \E j \in 1..Len(commits[i]) : commits[i][j] = RowOf(lastOp.pw)

\* C34: in the main window get, hint, update and delete with the list header
\* selected, an edit dialog that is cancelled, and a delete that is declined
\* leave the store and the mapping as they were and commit nothing.
C34_NoEffectPaths ==
    [][(/\ session' = "window"
        /\ \/ /\ lastOp'.op \in {"get_password", "get_hint", "qt_update", "qt_delete"}
              /\ console'.argv = Some(_NICKNAMES_LIST_HEADER)
           \/ /\ lastOp'.op \in {"qt_new", "qt_update", "qt_delete"}
              /\ ~console'.done)
       => /\ db' = db
          /\ passwords_dic' = passwords_dic
          /\ commits' = <<>>]_vars

\* C34 witness: with two entries stored, the delete of one was declined
C34_Witness ==
    /\ session = "window"
    /\ lastOp.op = "qt_delete"
    /\ ~console.done
    /\ console.argv.text \in DOMAIN passwords_dic
    /\ Cardinality(DOMAIN passwords_dic) = 2
    /\ Len(db.durable) = 2

====
